---- MODULE Spec2Model ----
(***************************************************************************)
(* landsatxplore: the download engine of earthexplorer.py together with    *)
(* the identifier classifier of util.py it relies on (Spec), the catalog   *)
(* client of api.py (ApiSpec, SearchSpec), the portal session of           *)
(* earthexplorer.py (PortalSpec), the identifier functions of util.py      *)
(* called on their own (UtilSpec), the metadata normalizer of api.py       *)
(* (ValueSpec, MetadataSpec) and two download calls for the same file      *)
(* (ConcurrentSpec).                                                       *)
(*                                                                         *)
(* Python strings that the code indexes, slices or splits are sequences    *)
(* of one-character strings; strings that are only compared are strings.   *)
(***************************************************************************)
EXTENDS Integers, Sequences, FiniteSets, TLC

(***************************************************************************)
(* Bounds of the model.                                                    *)
(***************************************************************************)
\* largest size, in bytes, of the remote file (Content-Length)
MaxSize == 3
\* a local file that exists before a call has at most MaxSize + MaxExtra bytes
MaxExtra == 1
\* chunk_size of _download, scaled to the sizes above
ChunkSize == 2
\* largest body of a "range not satisfiable" answer
MaxErrBody == 1

(***************************************************************************)
(* str helpers                                                             *)
(***************************************************************************)
Min(a, b) == IF a < b THEN a ELSE b

\* "".join(chars)
Join(s) ==
  LET joined[i \in 0..Len(s)] == IF i = 0 THEN "" ELSE joined[i - 1] \o s[i]
  IN  joined[Len(s)]

\* s[a:b] with 0 <= a <= b (Python slice: clipped to the string, never fails)
Slice(s, a, b) == SubSeq(s, a + 1, Min(b, Len(s)))

\* s.split(sep) for a one-character separator
Split(s, sep) ==
  LET seps == { i \in 1..Len(s) : s[i] = sep }
      n    == Cardinality(seps)
      \* the position of the k-th separator; 0 and Len(s) + 1 frame the string
      pos[k \in 0..(n + 1)] ==
        IF k = 0 THEN 0
        ELSE IF k = n + 1 THEN Len(s) + 1
        ELSE CHOOSE i \in seps : Cardinality({ j \in seps : j < i }) = k - 1
  IN  [k \in 1..(n + 1) |-> SubSeq(s, pos[k - 1] + 1, pos[k] - 1)]

\* s.replace(old, "") for a one-character old
Remove(s, old) == SelectSeq(s, LAMBDA c : c # old)

Digits == {"0", "1", "2", "3", "4", "5", "6", "7", "8", "9"}

DigitValue(c) ==
  CASE c = "0" -> 0 [] c = "1" -> 1 [] c = "2" -> 2 [] c = "3" -> 3
    [] c = "4" -> 4 [] c = "5" -> 5 [] c = "6" -> 6 [] c = "7" -> 7
    [] c = "8" -> 8 [] c = "9" -> 9

\* str.isdecimal()
IsDecimal(s) == s # << >> /\ \A i \in 1..Len(s) : s[i] \in Digits

\* int(s) for a string of decimal digits
IntOf(s) ==
  LET v[i \in 0..Len(s)] == IF i = 0 THEN 0 ELSE 10 * v[i - 1] + DigitValue(s[i])
  IN  v[Len(s)]

\* str.lower() of one character
Lower(c) ==
  CASE c = "L" -> "l" [] c = "T" -> "t" [] c = "E" -> "e" [] c = "C" -> "c"
    [] c = "S" -> "s" [] c = "P" -> "p" [] c = "G" -> "g" [] c = "X" -> "x"
    [] OTHER -> c

(***************************************************************************)
(* Scene identifiers                                                       *)
(***************************************************************************)
Identifiers ==
  {
      "LT05_L1GS_173058_20111028_20161005_01_T2",
      "LE07_L1TP_173058_20200926_20201022_01_T1",
      "LC08_L1TP_173058_20201004_20201015_01_T1",
      "LT05_L1TP_173058_20111028_20200820_02_T1",
      "LT05_L2SP_173058_20111028_20200820_02_T1",
      "LE07_L1TP_173058_20200926_20201022_02_T1",
      "LE07_L2SP_173058_20200926_20201022_02_T1",
      "LC08_L1TP_173058_20201004_20201015_02_T1",
      "LC08_L2SP_173058_20201004_20201016_02_T1",
      "11352455",
      "LE717305820INVALIDPID",
      "LT51950511995219MPS00",
      "LT41950511995219MPS00",
      "LTX1950511995219MPS00",
      "S2A_OPER_MSI_L1C_TL_SGS__20160"
  }

\* the characters of an identifier
Chars(id) ==
  CASE id = "LT05_L1GS_173058_20111028_20161005_01_T2" ->
       << "L", "T", "0", "5", "_", "L", "1", "G", "S", "_", "1", "7", "3", "0", "5", "8", "_", "2", "0", "1", "1", "1", "0", "2", "8", "_", "2", "0", "1", "6", "1", "0", "0", "5", "_", "0", "1", "_", "T", "2" >>
    [] id = "LE07_L1TP_173058_20200926_20201022_01_T1" ->
       << "L", "E", "0", "7", "_", "L", "1", "T", "P", "_", "1", "7", "3", "0", "5", "8", "_", "2", "0", "2", "0", "0", "9", "2", "6", "_", "2", "0", "2", "0", "1", "0", "2", "2", "_", "0", "1", "_", "T", "1" >>
    [] id = "LC08_L1TP_173058_20201004_20201015_01_T1" ->
       << "L", "C", "0", "8", "_", "L", "1", "T", "P", "_", "1", "7", "3", "0", "5", "8", "_", "2", "0", "2", "0", "1", "0", "0", "4", "_", "2", "0", "2", "0", "1", "0", "1", "5", "_", "0", "1", "_", "T", "1" >>
    [] id = "LT05_L1TP_173058_20111028_20200820_02_T1" ->
       << "L", "T", "0", "5", "_", "L", "1", "T", "P", "_", "1", "7", "3", "0", "5", "8", "_", "2", "0", "1", "1", "1", "0", "2", "8", "_", "2", "0", "2", "0", "0", "8", "2", "0", "_", "0", "2", "_", "T", "1" >>
    [] id = "LT05_L2SP_173058_20111028_20200820_02_T1" ->
       << "L", "T", "0", "5", "_", "L", "2", "S", "P", "_", "1", "7", "3", "0", "5", "8", "_", "2", "0", "1", "1", "1", "0", "2", "8", "_", "2", "0", "2", "0", "0", "8", "2", "0", "_", "0", "2", "_", "T", "1" >>
    [] id = "LE07_L1TP_173058_20200926_20201022_02_T1" ->
       << "L", "E", "0", "7", "_", "L", "1", "T", "P", "_", "1", "7", "3", "0", "5", "8", "_", "2", "0", "2", "0", "0", "9", "2", "6", "_", "2", "0", "2", "0", "1", "0", "2", "2", "_", "0", "2", "_", "T", "1" >>
    [] id = "LE07_L2SP_173058_20200926_20201022_02_T1" ->
       << "L", "E", "0", "7", "_", "L", "2", "S", "P", "_", "1", "7", "3", "0", "5", "8", "_", "2", "0", "2", "0", "0", "9", "2", "6", "_", "2", "0", "2", "0", "1", "0", "2", "2", "_", "0", "2", "_", "T", "1" >>
    [] id = "LC08_L1TP_173058_20201004_20201015_02_T1" ->
       << "L", "C", "0", "8", "_", "L", "1", "T", "P", "_", "1", "7", "3", "0", "5", "8", "_", "2", "0", "2", "0", "1", "0", "0", "4", "_", "2", "0", "2", "0", "1", "0", "1", "5", "_", "0", "2", "_", "T", "1" >>
    [] id = "LC08_L2SP_173058_20201004_20201016_02_T1" ->
       << "L", "C", "0", "8", "_", "L", "2", "S", "P", "_", "1", "7", "3", "0", "5", "8", "_", "2", "0", "2", "0", "1", "0", "0", "4", "_", "2", "0", "2", "0", "1", "0", "1", "6", "_", "0", "2", "_", "T", "1" >>
    [] id = "11352455" ->
       << "1", "1", "3", "5", "2", "4", "5", "5" >>
    [] id = "LE717305820INVALIDPID" ->
       << "L", "E", "7", "1", "7", "3", "0", "5", "8", "2", "0", "I", "N", "V", "A", "L", "I", "D", "P", "I", "D" >>
    [] id = "LT51950511995219MPS00" ->
       << "L", "T", "5", "1", "9", "5", "0", "5", "1", "1", "9", "9", "5", "2", "1", "9", "M", "P", "S", "0", "0" >>
    [] id = "LT41950511995219MPS00" ->
       << "L", "T", "4", "1", "9", "5", "0", "5", "1", "1", "9", "9", "5", "2", "1", "9", "M", "P", "S", "0", "0" >>
    [] id = "LTX1950511995219MPS00" ->
       << "L", "T", "X", "1", "9", "5", "0", "5", "1", "1", "9", "9", "5", "2", "1", "9", "M", "P", "S", "0", "0" >>
    [] id = "S2A_OPER_MSI_L1C_TL_SGS__20160" ->
       << "S", "2", "A", "_", "O", "P", "E", "R", "_", "M", "S", "I", "_", "L", "1", "C", "_", "T", "L", "_", "S", "G", "S", "_", "_", "2", "0", "1", "6", "0" >>

(***************************************************************************)
(* util.py: identifier classifier                                          *)
(***************************************************************************)
_is_landsat_product_id(id) == Len(id) = 40 /\ Len(id) >= 1 /\ id[1] = "L"

_is_landsat_scene_id(id) == Len(id) = 21 /\ Len(id) >= 1 /\ id[1] = "L"

_is_sentinel_display_id(id) == Len(id) = 34 /\ Len(id) >= 1 /\ id[1] = "L"

_is_sentinel_entity_id(id) == Len(id) = 8 /\ IsDecimal(id)

is_display_id(id) == _is_landsat_product_id(id) \/ _is_sentinel_display_id(id)

\* is_entity_id that takes product ids for entity ids as well
is_entity_id_or_product(id) ==
  _is_landsat_scene_id(id) \/ _is_sentinel_entity_id(id) \/ _is_landsat_product_id(id)

is_entity_id(id) == _is_landsat_scene_id(id) \/ _is_sentinel_entity_id(id)

\* A Python call either returns a value or raises: [exc |-> type, value |-> v]
NoExc == "None"
Returns(v) == [exc |-> NoExc, value |-> v]
Raises(type) == [exc |-> type, value |-> "None"]

\* parse_product_id with the satellite read one character early
parse_product_id_shifted(product_id) ==
  LET elements == Split(product_id, "_")
  IN  IF Len(elements[1]) < 2 \/ Len(elements) < 7
      THEN Raises("IndexError")
      ELSE Returns([sensor              |-> elements[1][2],
                    satellite           |-> Slice(elements[1], 1, 3),
                    processing_level    |-> elements[2],
                    satellite_orbits    |-> elements[3],
                    acquisition_date    |-> elements[4],
                    processing_date     |-> elements[5],
                    collection_number   |-> elements[6],
                    collection_category |-> elements[7]])

\* parse_product_id: elements[0][1] and elements[1..6] raise IndexError when
\* the string has too few characters or segments
parse_product_id(product_id) ==
  LET elements == Split(product_id, "_")
  IN  IF Len(elements[1]) < 2 \/ Len(elements) < 7
      THEN Raises("IndexError")
      ELSE Returns([sensor              |-> elements[1][2],
                    satellite           |-> Slice(elements[1], 2, 4),
                    processing_level    |-> elements[2],
                    satellite_orbits    |-> elements[3],
                    acquisition_date    |-> elements[4],
                    processing_date     |-> elements[5],
                    collection_number   |-> elements[6],
                    collection_category |-> elements[7]])

parse_scene_id(scene_id) ==
  [sensor          |-> scene_id[2],
   satellite       |-> Slice(scene_id, 2, 3),
   path            |-> Slice(scene_id, 3, 6),
   row             |-> Slice(scene_id, 6, 9),
   year            |-> Slice(scene_id, 9, 13),
   julian_day      |-> Slice(scene_id, 13, 16),
   ground_station  |-> Slice(scene_id, 16, 19),
   archive_version |-> Slice(scene_id, 19, 21)]

\* landsat_dataset(satellite, collection="c1", level="l1")
landsat_dataset(satellite, collection, level) ==
  LET sensor == CASE satellite = 5 -> "tm"
                  [] satellite = 7 -> "etm"
                  [] satellite = 8 /\ collection = "c1" -> "8"
                  [] satellite = 8 /\ collection = "c2" -> "ot"
                  [] OTHER -> "None"
      dataset == "landsat_" \o sensor \o "_" \o collection
  IN  IF sensor = "None" THEN Raises("LandsatxploreError")
      ELSE IF collection = "c2" THEN Returns(dataset \o "_" \o level)
      ELSE Returns(dataset)

guess_dataset(identifier) ==
  IF _is_landsat_product_id(identifier) THEN
    LET meta == parse_product_id(identifier)
    IN  IF meta.exc # NoExc THEN Raises(meta.exc)
        ELSE IF ~IsDecimal(meta.value.satellite) THEN Raises("ValueError")
        ELSE IF meta.value.collection_number = << >> THEN Raises("IndexError")
        ELSE LET satellite  == IntOf(meta.value.satellite)
                 number     == meta.value.collection_number
                 collection == "c" \o number[Len(number)]
                 level      == Join([i \in 1..Len(Slice(meta.value.processing_level, 0, 2)) |->
                                       Lower(meta.value.processing_level[i])])
             IN  landsat_dataset(satellite, collection, level)
  ELSE IF _is_landsat_scene_id(identifier) THEN
    LET meta == parse_scene_id(identifier)
    IN  IF ~IsDecimal(meta.satellite) THEN Raises("ValueError")
        ELSE landsat_dataset(IntOf(meta.satellite), "c1", "l1")
  ELSE IF _is_sentinel_display_id(identifier) \/ _is_sentinel_entity_id(identifier)
  THEN Returns("sentinel_2a")
  ELSE Raises("LandsatxploreError")

(***************************************************************************)
(* cli.py: the supported datasets                                          *)
(***************************************************************************)
DATASETS ==
  << "landsat_tm_c1", "landsat_etm_c1", "landsat_8_c1",
     "landsat_tm_c2_l1", "landsat_tm_c2_l2",
     "landsat_etm_c2_l1", "landsat_etm_c2_l2",
     "landsat_ot_c2_l1", "landsat_ot_c2_l2",
     "sentinel_2a" >>

(***************************************************************************)
(* earthexplorer.py: the download engine                                   *)
(***************************************************************************)
\* IDs of GeoTIFF data product for each dataset
DATA_PRODUCTS ==
  [d \in {"landsat_tm_c2_l1", "landsat_etm_c2_l1", "landsat_ot_c2_l1",
          "landsat_tm_c2_l2", "landsat_etm_c2_l2", "landsat_ot_c2_l2"} |->
     CASE d = "landsat_tm_c2_l1"  -> << "5e81f14f92acf9ef", "5e83d0a0f94d7d8d", "63231219fdd8c4e5" >>
       [] d = "landsat_etm_c2_l1" -> << "5e83d0d0d2aaa488", "5e83d0d08fec8a66" >>
       [] d = "landsat_ot_c2_l1"  -> << "5e81f14ff4f9941c", "5e81f14f92acf9ef" >>
       [] d = "landsat_tm_c2_l2"  -> << "5e83d11933473426", "5e83d11933473426", "632312ba6c0988ef" >>
       [] d = "landsat_etm_c2_l2" -> << "5e83d12aada2e3c5", "5e83d12aed0efa58", "632311068b0935a8" >>
       [] d = "landsat_ot_c2_l2"  -> << "5e83d14f30ea90a9", "5e83d14fec7cae84", "632210d4770592cf" >>]

\* The scenes a download is asked for: (identifier, dataset argument).
\* "None" is the default dataset=None: the dataset is guessed.
Scenes ==
  { << id, "None" >> : id \in Identifiers } \cup
  { << "LT51950511995219MPS00", "landsat_tm_c1" >>,
    << "LT51950511995219MPS00", "landsat_tm_c2_l1" >>,
    << "11352455", "sentinel_2a" >>,
    << "LT51950511995219MPS00", "landsat_mss_c2_l1" >> }

\* guess_dataset(identifier) and is_display_id(identifier) of every scene
\* identifier, evaluated once
guessed_dataset == [id \in Identifiers |-> guess_dataset(Chars(id))]
display_ids == { id \in Identifiers : is_display_id(Chars(id)) }

\* timeout argument of download (default 300, 100 in the tests)
Timeouts == {100, 300}

\* output_dir argument of download
output_dir == "out"

\* Content-Disposition headers the server may send, as characters and words
ContentDispositions ==
  { << "attachment; filename", "=", "\"", "LT05.tar", "\"" >>,
    << "attachment; filename", "=", "LT05", ".tar.gz" >> }

\* server: the Content-Disposition header of the file of a scene
ContentDisposition(id) ==
  IF id \in display_ids
  THEN << "attachment; filename", "=", "\"", "LT05.tar", "\"" >>
  ELSE << "attachment; filename", "=", "LT05", ".tar.gz" >>

\* _get_fileinfo: the local file name made from the Content-Disposition header
LocalFilename(content_disposition) ==
  LET parts == Split(content_disposition, "=")
      last  == parts[Len(parts)]
  IN  output_dir \o "/" \o Join(Remove(last, "\""))

Paths == { LocalFilename(h) : h \in ContentDispositions }

\* size of a file that does not exist
Absent == -1
\* headers = {} : no Range header
NoRange == -1
\* download's local variable filename before its first assignment
Unbound == "unbound"

NoMsg == [kind |-> "none", seconds |-> 0]
\* "Connection timeout after {} seconds.".format(timeout)
TimeoutMsg(t) == [kind |-> "timeout", seconds |-> t]
\* the provider's errorMessage
ProviderMsg == [kind |-> "errorMessage", seconds |-> 0]
NoException == [type |-> NoExc, msg |-> NoMsg]

(***************************************************************************)
(* The catalog client of api.py and the portal session of earthexplorer.py *)
(*                                                                         *)
(* A Python value that may be None is a set: {} is None, {v} is v.         *)
(***************************************************************************)
None == {}
Some(v) == {v}
\* bool(x) of an optional number, string, list, dict
TruthyNum(x) == x # None /\ x # Some(0)
TruthyStr(x) == x # None /\ x # Some("")
TruthySeq(x) == x # None /\ x # Some(<< >>)
TruthyDict(x) == x # None /\ \A d \in x : DOMAIN d # {}

\* the errorCode field of a response of the catalog API: absent (null),
\* empty, the codes raise_api_error names, the provider's code for a user
\* lacking permission as the provider spells it, and two other codes
ErrorCodes ==
  { None, Some(""), Some("AUTH_INVALID"), Some("AUTH_UNAUTHROIZED"),
    Some("AUTH_KEY_INVALID"), Some("AUTH_UNAUTHORIZED"), Some("RATE_LIMIT"),
    Some("DATASET_INVALID"), Some("SERVER_ERROR") }

\* API.raise_api_error: the exception a response raises, if any
\* raise_api_error with "else: pass" in the place of lines 54-55
raise_api_error_pass(error_code) ==
  IF TruthyStr(error_code)
  THEN IF error_code \in { Some("AUTH_INVALID"), Some("AUTH_UNAUTHROIZED"),
                           Some("AUTH_KEY_INVALID") }
       THEN Raises("USGSAuthenticationError")
       ELSE IF error_code = Some("RATE_LIMIT")
            THEN Raises("USGSRateLimitError")
            ELSE Returns("None")
  ELSE Returns("None")

raise_api_error(error_code) ==
  IF TruthyStr(error_code)
  THEN IF error_code \in { Some("AUTH_INVALID"), Some("AUTH_UNAUTHROIZED"),
                           Some("AUTH_KEY_INVALID") }
       THEN Raises("USGSAuthenticationError")
       ELSE IF error_code = Some("RATE_LIMIT")
            THEN Raises("USGSRateLimitError")
            ELSE Raises("USGSError")
  ELSE Returns("None")

\* errors.py: the exception classes, each a direct subclass of Exception
ErrorClasses ==
  { "USGSError", "USGSInvalidEndpoint", "USGSInvalidParametersError",
    "USGSUnauthorizedError", "USGSAuthenticationError", "USGSRateLimitError",
    "EarthExplorerError", "LandsatxploreError" }
\* the classes an except clause naming class c catches
CaughtBy(c) == { c }

\* api.Coordinate, api.SpatialFilterMbr, api.AcquisitionFilter,
\* api.CloudCoverFilter: the dicts sent to the provider
Coordinate(longitude, latitude) ==
  [longitude |-> longitude, latitude |-> latitude]
SpatialFilterMbr(xmin, ymin, xmax, ymax) ==
  [filterType |-> "mbr", lowerLeft |-> Coordinate(xmin, ymin),
   upperRight |-> Coordinate(xmax, ymax)]
AcquisitionFilter(start, end) == [start |-> start, end |-> end]
CloudCoverFilter(min, max, include_unknown) ==
  [min |-> min, max |-> max, includeUnknown |-> include_unknown]
\* shapely: Point(longitude, latitude).bounds
PointBounds(longitude, latitude) ==
  << longitude, latitude, longitude, latitude >>

SceneFilterKeys ==
  { "acquisitionFilter", "spatialFilter", "cloudCoverFilter", "metadataFilter",
    "seasonalFilter" }

\* SceneFilter.__init__ without its if statements: every key is set
SceneFilter_allkeys(acquisition_filter, spatial_filter, cloud_cover_filter, metadata_filter, months) ==
  [acquisitionFilter |-> acquisition_filter, spatialFilter |-> spatial_filter,
   cloudCoverFilter |-> cloud_cover_filter, metadataFilter |-> metadata_filter,
   seasonalFilter |-> months]

\* SceneFilter.__init__: a key is set when its argument is truthy
SceneFilter(acquisition_filter, spatial_filter, cloud_cover_filter, metadata_filter, months) ==
  LET given == [acquisitionFilter |-> acquisition_filter,
                spatialFilter |-> spatial_filter,
                cloudCoverFilter |-> cloud_cover_filter,
                metadataFilter |-> metadata_filter,
                seasonalFilter |-> months]
      keys == { k \in SceneFilterKeys :
                  IF k = "seasonalFilter" THEN TruthySeq(given[k])
                                          ELSE TruthyDict(given[k]) }
  IN  [k \in keys |-> given[k]]

\* API.search, lines 245-263: the scene filter made from the arguments
search_scene_filter(longitude, latitude, bbox, max_cloud_cover, start_date, end_date, months) ==
  LET spatial_filter ==
        IF TruthyNum(longitude) /\ TruthyNum(latitude)
        THEN LET b == PointBounds(CHOOSE x \in longitude : TRUE,
                                  CHOOSE y \in latitude : TRUE)
             IN  Some(SpatialFilterMbr(b[1], b[2], b[3], b[4]))
        ELSE IF TruthySeq(bbox)
             THEN LET b == CHOOSE x \in bbox : TRUE
                  IN  Some(SpatialFilterMbr(b[1], b[2], b[3], b[4]))
             ELSE None
      acquisition_filter ==
        IF TruthyStr(start_date) /\ TruthyStr(end_date)
        THEN Some(AcquisitionFilter(CHOOSE s \in start_date : TRUE,
                                    CHOOSE e \in end_date : TRUE))
        ELSE None
      cloud_cover_filter ==
        IF TruthyNum(max_cloud_cover)
        THEN Some(CloudCoverFilter(0, CHOOSE m \in max_cloud_cover : TRUE, FALSE))
        ELSE None
  IN  SceneFilter(acquisition_filter, spatial_filter, cloud_cover_filter,
                  None, months)

VARIABLES
  identifier,       \* the scene asked for
  dataset,          \* the dataset argument, "None" when not supplied
  content_disposition, \* server: Content-Disposition of the scene's file
  content_length,   \* server: Content-Length of the scene's file
  fs,               \* local file system: path -> size in bytes, or Absent
  pc,               \* position of the current download call
  skip, overwrite, timeout,   \* arguments of the current call
  dataset_id_list, id_count, filename,   \* locals of download
  local_filename, filesize, headers, file_mode, downloaded_bytes, \* locals of _download
  pbar,             \* tqdm progress counter
  remaining,        \* bytes of the response body not yet read
  exc,              \* the exception that reached the caller of download
  result,           \* the value download returned
  outcome,          \* history: how _download ended for each candidate tried
  bodyRequests,     \* history: the body-transfer requests of this call
  fs0,              \* history: the file system when this call started
  last_skip         \* history: what the latest earlier skip=True call returned

vars == << identifier, dataset, content_disposition, content_length, fs, pc,
           skip, overwrite, timeout, dataset_id_list, id_count, filename,
           local_filename, filesize, headers, file_mode, downloaded_bytes,
           pbar, remaining, exc, result, outcome, bodyRequests, fs0,
           last_skip >>

env == << identifier, dataset, content_disposition, content_length >>
args == << skip, overwrite, timeout >>
locals == << local_filename, filesize, headers, file_mode, downloaded_bytes,
             pbar, remaining >>

\* provider: the tokens it issues at login
Tokens == { "token1", "token2" }
\* session.headers without an X-Auth-Token
NoToken == "None"

VARIABLES
  constructed,      \* API.__init__ has returned
  x_auth_token,     \* API.session.headers["X-Auth-Token"], NoToken when absent
  server_tokens,    \* provider: the tokens it accepts
  server_lists,     \* provider: scene list id -> its scenes, None when absent
  api_pc,           \* position of the current API method call
  api_op,           \* the API method running, "None" when idle
  endpoint,         \* endpoint argument of the running request()
  display_id,       \* argument of get_entity_id
  list_id,          \* local of get_entity_id
  entity_ids,       \* local entity_id of get_entity_id
  search_args,      \* arguments of search
  scene_filter,     \* local of search
  http,             \* history: requests, sleeps and responses of this method call
  api_exc,          \* the exception the latest method call raised, NoExc if none
  api_value,        \* the value the latest get_entity_id returned
  logged_out,       \* history: a logout has returned on this client
  created           \* history: scene lists created by the latest get_entity_id

VARIABLES
  cookies,          \* EarthExplorer.session.cookies: the EROS_SSO_production_secure cookie
  ee_pc,            \* position of the current EarthExplorer.login / logout call
  credentials,      \* arguments of the current login
  csrf,             \* local of login: the token taken from the login page
  ee_http,          \* history: the requests of the latest portal method call
  ee_exc,           \* the exception the latest login raised, NoExc if none
  logged_in_value   \* the value the latest logged_in() returned

VARIABLES
  id_arg,               \* the identifier the util functions were last called with
  ret_is_display_id,    \* what is_display_id(id_arg) returned, "None" before the call
  ret_is_entity_id,     \* what is_entity_id(id_arg) returned, "None" before the call
  ret_parse_product_id, \* how parse_product_id(id_arg) ended
  ret_guess_dataset     \* how guess_dataset(id_arg) ended

VARIABLES
  value_arg,            \* the value _parse_value was last called with
  ret_parse_value,      \* what _parse_value(value_arg) returned
  md_pc,                \* "received" while a response waits to be parsed
  md_response,          \* the scene record the provider returned last
  ret_parse_metadata    \* how _parse_metadata(response) ended

VARIABLES
  c_filesize,           \* server: Content-Length of the file both calls download
  c_file,               \* the bytes of the local file, None when it does not exist
  c_pc,                 \* call -> position in _download
  c_file_exists,        \* call -> local file_exists
  c_downloaded_bytes,   \* call -> local downloaded_bytes
  c_headers,            \* call -> the Range of local headers, NoRange when empty
  c_file_mode,          \* call -> local file_mode
  c_body,               \* call -> bytes of the response body not yet read
  c_offset,             \* call -> position of the open file f
  c_overlap             \* history: a call started while the other was running

api == << constructed, x_auth_token, server_tokens, server_lists, api_pc,
          api_op, endpoint, display_id, list_id, entity_ids, search_args,
          scene_filter,
          http, api_exc, api_value, logged_out, created >>
portal == << cookies, ee_pc, credentials, csrf, ee_http, ee_exc,
             logged_in_value >>
util == << id_arg, ret_is_display_id, ret_is_entity_id, ret_parse_product_id,
           ret_guess_dataset >>
normalizer == << value_arg, ret_parse_value, md_pc, md_response,
                 ret_parse_metadata >>
concurrent == << c_filesize, c_file, c_pc, c_file_exists, c_downloaded_bytes,
                 c_headers, c_file_mode, c_body, c_offset, c_overlap >>
library == << util, normalizer, concurrent >>
client == << api, portal, library >>

\* seconds request sleeps before it sends a rate-limited request again
Backoff == 3
\* _random_string(): ten lowercase letters
ListIds == { "qwertyuiop", "asdfghjklz" }
\* list_id before _random_string is called
NoList == "None"

\* provider: the entity id of each display id of its catalogue
Catalog ==
  [d \in { "LT05_L1GS_173058_20111028_20161005_01_T2",
           "LT05_L1GS_173057_20010407_20171209_01_T2" } |->
     IF d = "LT05_L1GS_173058_20111028_20161005_01_T2"
     THEN "LT51730582011301MLK00" ELSE "LT51730572001097LBG00"]

\* a display_id argument: a str (list FALSE, one id) or a list of str
Single(d) == [list |-> FALSE, ids |-> << d >>]
Batch(ds) == [list |-> TRUE, ids |-> ds]
NoIds == [list |-> FALSE, ids |-> << >>]
\* the display_id arguments of get_entity_id: the two of the tests, the
\* batch in the other order, and ids the catalogue does not hold
DisplayIds ==
  { Single("LT05_L1GS_173058_20111028_20161005_01_T2"),
    Single("LT05_L1GS_000000_20111028_20161005_01_T2"),
    Batch(<< "LT05_L1GS_173058_20111028_20161005_01_T2",
             "LT05_L1GS_173057_20010407_20171209_01_T2" >>),
    Batch(<< "LT05_L1GS_173057_20010407_20171209_01_T2",
             "LT05_L1GS_173058_20111028_20161005_01_T2" >>),
    Batch(<< "LT05_L1GS_000000_20111028_20161005_01_T2",
             "LT05_L1GS_173058_20111028_20161005_01_T2" >>) }

\* the entries of the history http
HttpRequest(method, ep, tok, lid) ==
  [kind |-> method, endpoint |-> ep, token |-> tok, list_id |-> lid,
   code |-> None, seconds |-> 0]
HttpResponse(code) ==
  [kind |-> "response", endpoint |-> "None", token |-> NoToken,
   list_id |-> NoList, code |-> code, seconds |-> 0]
Sleep(seconds) ==
  [kind |-> "sleep", endpoint |-> "None", token |-> NoToken,
   list_id |-> NoList, code |-> None, seconds |-> seconds]

\* the arguments of search
Longitudes == { None, Some(0), Some(4) }
Latitudes == { None, Some(50) }
BBoxes == { None, Some(<< 4, 50, 5, 51 >>) }
MaxCloudCovers == { None, Some(0), Some(10) }
StartDates == { None, Some("2000-01-01") }
EndDates == { None, Some("2001-12-31") }
Months == { None, Some(<< >>), Some(<< 6, 7 >>) }
SearchArgs ==
  [longitude : Longitudes, latitude : Latitudes, bbox : BBoxes,
   max_cloud_cover : MaxCloudCovers, start_date : StartDates,
   end_date : EndDates, months : Months]
NoSearch ==
  [longitude |-> None, latitude |-> None, bbox |-> None,
   max_cloud_cover |-> None, start_date |-> None, end_date |-> None,
   months |-> None]

\* API.__init__, lines 33-34: the client before its first login
ApiInit ==
  /\ constructed = FALSE
  /\ x_auth_token = NoToken
  /\ server_tokens = {}
  /\ server_lists = [l \in ListIds |-> None]
  /\ api_pc = "idle"
  /\ api_op = "None"
  /\ endpoint = "None"
  /\ display_id = NoIds
  /\ list_id = NoList
  /\ entity_ids = << >>
  /\ search_args = NoSearch
  /\ scene_filter = None
  /\ http = << >>
  /\ api_exc = NoExc
  /\ api_value = NoIds
  /\ logged_out = FALSE
  /\ created = {}

\* the users of the portal: the account of the tests, the bad one of the
\* tests, and the account with a wrong password
Credentials ==
  { [username |-> "user", password |-> "pass"],
    [username |-> "bad_username", password |-> "bad_password"],
    [username |-> "user", password |-> "bad_password"] }
NoCredentials == [username |-> "None", password |-> "None"]

\* EarthExplorer.__init__, line 47: the session before its first login
PortalInit ==
  /\ cookies = None
  /\ ee_pc = "idle"
  /\ credentials = NoCredentials
  /\ csrf = None
  /\ ee_http = << >>
  /\ ee_exc = NoExc
  /\ logged_in_value = "None"

\* the fields a product id is made of (values of the ids of the tests, a
\* satellite that is no number, an empty level, a collection 03)
ProductFields ==
  [sensor              : { "T", "C" },
   satellite           : { << "0", "5" >>, << "0", "8" >>, << "X", "5" >> },
   processing_level    : { << "L", "1", "T", "P" >>, << "L", "2", "S", "P" >>, << >> },
   satellite_orbits    : { << "1", "7", "3", "0", "5", "8" >> },
   acquisition_date    : { << "2", "0", "1", "1", "1", "0", "2", "8" >> },
   processing_date     : { << "2", "0", "2", "0", "0", "8", "2", "0" >> },
   collection_number   : { << "0", "1" >>, << "0", "3" >> },
   collection_category : { << "T", "1" >> }]

\* the product id made of fields f:
\* L + sensor + satellite _ level _ path/row _ acquired _ processed _ number _ category
ProductId(f) ==
  << "L", f.sensor >> \o f.satellite \o << "_" >> \o f.processing_level
    \o << "_" >> \o f.satellite_orbits \o << "_" >> \o f.acquisition_date
    \o << "_" >> \o f.processing_date \o << "_" >> \o f.collection_number
    \o << "_" >> \o f.collection_category

\* strings of the lengths the classifier tests, and their neighbours
Prefixes == { "L", "S", "1" }
PaddedLengths == { 1, 8, 21, 34, 40, 41 }
Padded(prefix, n) == [i \in 1..n |-> IF i = 1 THEN prefix ELSE "0"]

\* strings of k underscore-separated segments
SegmentCounts == { 1, 2, 6, 7, 8, 9 }
Segmented(k) ==
  LET s[i \in 1..k] == IF i = 1 THEN << "L", "T", "0", "5" >> ELSE s[i - 1] \o << "_", "0", "1" >>
  IN  s[k]

\* the strings the util functions are called with
UtilInputs ==
  { Chars(id) : id \in Identifiers }
    \cup { ProductId(f) : f \in ProductFields }
    \cup { Padded(p, n) : p \in Prefixes, n \in PaddedLengths }
    \cup { Segmented(k) : k \in SegmentCounts }
    \cup { ProductId(f) \o << "_", "X" >> : f \in { g \in ProductFields : g.satellite = << "0", "5" >> /\ g.sensor = "T" } }

\* a function of util.py that was not called with id_arg
NotCalled == [exc |-> "NotCalled", value |-> "None"]

\* no function of util.py was called yet
UtilInit ==
  /\ id_arg = << >>
  /\ ret_is_display_id = "None"
  /\ ret_is_entity_id = "None"
  /\ ret_parse_product_id = NotCalled
  /\ ret_guess_dataset = NotCalled

(***************************************************************************)
(* api.py: the metadata normalizer. Python values are records of a type    *)
(* name and a value; strings are sequences of characters.                  *)
(***************************************************************************)
PyString(chars) == [type |-> "str", str |-> chars]
PyInt(n) == [type |-> "int", int |-> n]
\* a float: mantissa / 10^digits, the mantissa without trailing zeros
PyFloat(mantissa, digits) == [type |-> "float", float |-> << mantissa, digits >>]
\* datetime(year, 1, 1) + (yday - 1) days, hour, minute, second, microsecond
Datetime(year, yday, hour, minute, second, microsecond) ==
  [type |-> "datetime", datetime |-> << year, yday, hour, minute, second, microsecond >>]
NoneValue == [type |-> "NoneType"]
\* dtime.replace(microsecond=microsecond) of a datetime of whole seconds
PyDatetime(dtime, microsecond) ==
  [type |-> "datetime",
   datetime |-> [i \in 1..6 |-> IF i = 6 THEN microsecond ELSE (CHOOSE t \in dtime : TRUE)[i]]]

ascii_uppercase == << "A", "B", "C", "D", "E", "F", "G", "H", "I", "J", "K", "L", "M", "N", "O", "P", "Q", "R", "S", "T", "U", "V", "W", "X", "Y", "Z" >>
ascii_lowercase == << "a", "b", "c", "d", "e", "f", "g", "h", "i", "j", "k", "l", "m", "n", "o", "p", "q", "r", "s", "t", "u", "v", "w", "x", "y", "z" >>
IsUpper(c) == \E i \in DOMAIN ascii_uppercase : ascii_uppercase[i] = c
\* c.lower()
ToLower(c) ==
  IF IsUpper(c)
  THEN ascii_lowercase[CHOOSE i \in DOMAIN ascii_uppercase : ascii_uppercase[i] = c]
  ELSE c

Whitespace == { " ", "\t", "\n" }
\* s.strip()
Strip(s) ==
  LET kept == { i \in 1..Len(s) : s[i] \notin Whitespace }
  IN  IF kept = {} THEN << >>
      ELSE SubSeq(s, CHOOSE i \in kept : \A j \in kept : i <= j,
                     CHOOSE i \in kept : \A j \in kept : j <= i)

\* s.startswith(p), s.endswith(p), p at position i of s
StartsWithAt(s, p, i) == i + Len(p) - 1 <= Len(s) /\ SubSeq(s, i, i + Len(p) - 1) = p
EndsWith(s, p) == Len(p) <= Len(s) /\ SubSeq(s, Len(s) - Len(p) + 1, Len(s)) = p

\* s.replace(old, new): the occurrences of old from left to right, not overlapping
RECURSIVE ReplaceFrom(_, _, _, _)
ReplaceFrom(s, old, new, i) ==
  IF i > Len(s) THEN << >>
  ELSE IF StartsWithAt(s, old, i)
       THEN new \o ReplaceFrom(s, old, new, i + Len(old))
       ELSE << s[i] >> \o ReplaceFrom(s, old, new, i + 1)
Replace(s, old, new) == ReplaceFrom(s, old, new, 1)

\* str(value) of a value of the provider's JSON
StrOf(value) ==
  CASE value.type = "str" -> value.str
    [] value.type = "NoneType" -> << "N", "o", "n", "e" >>
    [] value.type = "int" ->
         LET digits[n \in 0..value.int] ==
               IF n < 10 THEN << CHOOSE c \in Digits : DigitValue(c) = n >>
               ELSE digits[n \div 10] \o digits[n % 10]
         IN  digits[value.int]

\* _title_to_snake, line 285
_title_to_snake(src_string) ==
  Replace(Replace([i \in 1..Len(src_string) |-> ToLower(src_string[i])],
                  << " " >>, << "_" >>), << "/" >>, << "-" >>)

\* _camel_to_snake, lines 290-297
_camel_to_snake(src_string) ==
  LET dst_string[i \in 1..Len(src_string)] ==
        IF i = 1 THEN << ToLower(src_string[1]) >>
        ELSE IF IsUpper(src_string[i])
             THEN dst_string[i - 1] \o << "_", ToLower(src_string[i]) >>
             ELSE dst_string[i - 1] \o << src_string[i] >>
  IN  dst_string[Len(src_string)]

\* the literals int() and float() take, after the surrounding whitespace
Signs == { "+", "-" }
Unsigned(s) == IF s # << >> /\ s[1] \in Signs THEN Tail(s) ELSE s
Sign(s) == IF s # << >> /\ s[1] = "-" THEN -1 ELSE 1
IsIntLiteral(s) == IsDecimal(Unsigned(Strip(s)))
IsFloatLiteral(s) ==
  LET parts == Split(Unsigned(Strip(s)), ".")
  IN  /\ Len(parts) = 2
      /\ parts[1] \o parts[2] # << >>
      /\ \A i \in 1..2 : parts[i] = << >> \/ IsDecimal(parts[i])
\* the digits of a fraction without its trailing zeros
RECURSIVE Significant(_)
Significant(frac) ==
  IF frac # << >> /\ frac[Len(frac)] = "0"
  THEN Significant(SubSeq(frac, 1, Len(frac) - 1)) ELSE frac

\* float() of the literal of units and fraction
FloatOf(sign, units, frac) == PyFloat(sign * IntOf(units \o frac), Len(frac))
FloatOfParts(sign, parts) == FloatOf(sign, parts[1], Significant(parts[2]))

\* _to_num, lines 307-314, on the stripped string s
ToNumStripped(s) ==
  IF IsIntLiteral(s) THEN PyInt(Sign(s) * IntOf(Unsigned(s)))
  ELSE IF IsFloatLiteral(s) THEN FloatOfParts(Sign(s), Split(Unsigned(s), "."))
  ELSE PyString(s)

\* _to_num, lines 300-314: int(), then float(), then the string itself
_to_num(src_string) ==
  IF src_string.type # "str" THEN src_string
  ELSE ToNumStripped(Strip(src_string.str))

\* calendar: the days of the year before a month
IsLeap(year) == (year % 4 = 0 /\ year % 100 # 0) \/ year % 400 = 0
MonthDays(year) ==
  << 31, IF IsLeap(year) THEN 29 ELSE 28, 31, 30, 31, 30, 31, 31, 30, 31, 30, 31 >>
DaysBefore(year, month) ==
  LET sum[m \in 1..12] == IF m = 1 THEN 0 ELSE sum[m - 1] + MonthDays(year)[m - 1]
  IN  sum[month]
YearDays(year) == IF IsLeap(year) THEN 366 ELSE 365

\* dateutil: parser.parse(s) for the date forms YYYY-MM-DD, YYYY/MM/DD and
\* YYYYMMDD; every other string is no date to it (ParserError)
DateDigits(s) ==
  IF Len(s) = 10 /\ s[5] = s[8] /\ s[5] \in { "-", "/" }
  THEN SubSeq(s, 1, 4) \o SubSeq(s, 6, 7) \o SubSeq(s, 9, 10)
  ELSE s
DateOf(year, month, day) ==
  IF year >= 1 /\ month \in 1..12 /\ day \in 1..MonthDays(year)[month]
  THEN Some(Datetime(year, DaysBefore(year, month) + day, 0, 0, 0, 0))
  ELSE None
DateOfDigits(d) ==
  IF Len(d) = 8 /\ IsDecimal(d)
  THEN DateOf(IntOf(SubSeq(d, 1, 4)), IntOf(SubSeq(d, 5, 6)), IntOf(SubSeq(d, 7, 8)))
  ELSE None
parser_parse(s) == DateOfDigits(DateDigits(s))

\* datetime.strptime(s, "%Y:%j:%H:%M:%S"), None for ValueError
TimeOf(year, yday, hour, minute, second) ==
  IF year < 1 \/ yday \notin 1..366 \/ hour > 23 \/ minute > 59 \/ second > 61
  THEN None
  ELSE IF yday <= YearDays(year)
       THEN Some(<< year, yday, hour, minute, second >>)
       ELSE Some(<< year + 1, yday - YearDays(year), hour, minute, second >>)
TimeOfFields(f) ==
  IF /\ Len(f) = 5
     /\ \A i \in 1..5 : IsDecimal(f[i]) /\ Len(f[i]) <= (CASE i = 1 -> 4 [] i = 2 -> 3 [] OTHER -> 2)
     /\ Len(f[1]) = 4
  THEN TimeOf(IntOf(f[1]), IntOf(f[2]), IntOf(f[3]), IntOf(f[4]), IntOf(f[5]))
  ELSE None
strptime(s) == TimeOfFields(Split(s, ":"))

\* lines 329-332: the date of the two parts of the string, the string
\* itself when strptime, int or replace raises ValueError
WithMicrosecond(src_string, dtime, frag) ==
  IF dtime = None \/ ~IsIntLiteral(frag) THEN src_string
  ELSE IF Sign(frag) * IntOf(Unsigned(frag)) < 0 THEN src_string
  ELSE PyDatetime(dtime, IntOf(Unsigned(frag)))
ProviderDate(src_string, parts) ==
  IF Len(parts) # 2 THEN src_string
  ELSE WithMicrosecond(src_string, strptime(parts[1]), Strip(Slice(parts[2], 0, 6)))
FirstDate(src_string, parsed) ==
  IF parsed # None THEN CHOOSE d \in parsed : TRUE
  ELSE ProviderDate(src_string, Split(src_string.str, "."))

\* _to_date, lines 317-335: dateutil first; on ParserError the format of
\* start_time and end_time; the string itself when both fail
_to_date(src_string) ==
  IF src_string.type # "str" THEN src_string
  ELSE FirstDate(src_string, parser_parse(src_string.str))

\* _parse_value with the date tried before the number
_parse_value_date_first(src_value) ==
  IF src_value.type = "str"
  THEN _to_num(_to_date(PyString(Strip(src_value.str))))
  ELSE src_value

\* _parse_value, lines 338-348
_parse_value(src_value) ==
  IF src_value.type = "str"
  THEN _to_date(_to_num(PyString(Strip(src_value.str))))
  ELSE src_value

\* a dict: keys to values; d[k] = v and d.update(e)
EmptyDict == << >>
Put(d, k, v) == [x \in DOMAIN d \cup { k } |-> IF x = k THEN v ELSE d[x]]
Update(d, e) == [x \in DOMAIN d \cup DOMAIN e |-> IF x \in DOMAIN e THEN e[x] ELSE d[x]]
List(items) == [type |-> "list", list |-> items]
\* shapely: shape(value) and shape(value).bounds, not looked into
Shape(value) == [type |-> "shape", shape |-> value]
Bounds(value) == [type |-> "bounds", bounds |-> value]

\* _parse_metadata_field, lines 366-384: the name a field of the nested
\* metadata list is stored under
Acquired(name) == IF name = << "d", "a", "t", "e", "_", "a", "c", "q", "u", "i", "r", "e", "d" >> THEN << "a", "c", "q", "u", "i", "s", "i", "t", "i", "o", "n", "_", "d", "a", "t", "e" >> ELSE name
Sentinel(name) == IF name = << "e", "n", "t", "i", "t", "y", "_", "i", "d" >> THEN << "s", "e", "n", "t", "i", "n", "e", "l", "_", "e", "n", "t", "i", "t", "y", "_", "i", "d" >> ELSE name
FieldName(fieldName) ==
  Sentinel(Replace(Replace(Acquired(Replace(_title_to_snake(fieldName),
                                            << "i", "d", "e", "n", "t", "i", "f", "i", "e", "r" >>, << "i", "d" >>)),
                           << "_", "l", "1" >>, << >>), << "_", "l", "2" >>, << >>))

\* str(value).strip(), lines 387 and 415
KeptAsString(value) == PyString(Strip(StrOf(value)))

\* lines 377-389: one field of the list, stored under name unless its
\* dictionary link says coordinates_degrees; every value parsed
ParseField_coerce(dst_meta, name, dict_id, value) ==
  IF dict_id = << "c", "o", "o", "r", "d", "i", "n", "a", "t", "e", "s", "_", "d", "e", "g", "r", "e", "e", "s" >> THEN dst_meta
  ELSE Put(dst_meta, name, _parse_value(value))

\* lines 377-389: one field of the list, stored under name unless its
\* dictionary link says coordinates_degrees
ParseField(dst_meta, name, dict_id, value) ==
  IF dict_id = << "c", "o", "o", "r", "d", "i", "n", "a", "t", "e", "s", "_", "d", "e", "g", "r", "e", "e", "s" >> THEN dst_meta
  ELSE IF EndsWith(name, << "_", "i", "d" >>) THEN Put(dst_meta, name, KeptAsString(value))
  ELSE Put(dst_meta, name, _parse_value(value))

\* line 377: meta.get("dictionaryLink").split("#")[-1].strip()
DictId(links) == Strip(links[Len(links)])

\* _parse_metadata_field, lines 362-390
_parse_metadata_field(src_meta) ==
  LET dst_meta[i \in 0..Len(src_meta)] ==
        IF i = 0 THEN EmptyDict
        ELSE ParseField(dst_meta[i - 1], FieldName(src_meta[i].fieldName),
                        DictId(Split(src_meta[i].dictionaryLink, "#")),
                        src_meta[i].value)
  IN  dst_meta[Len(src_meta)]

\* lines 397-417: one item of the response, stored under name
ParseItem(metadata, key, value, name) ==
  CASE key = << "b", "r", "o", "w", "s", "e" >> -> metadata
    [] key = << "s", "p", "a", "t", "i", "a", "l", "C", "o", "v", "e", "r", "a", "g", "e" >> -> Put(metadata, name, Shape(value))
    [] key = << "s", "p", "a", "t", "i", "a", "l", "B", "o", "u", "n", "d", "s" >> -> Put(metadata, name, Bounds(value))
    [] key = << "t", "e", "m", "p", "o", "r", "a", "l", "C", "o", "v", "e", "r", "a", "g", "e" >> ->
         LET start == value.endDate
             end   == value.startDate
         IN  Put(metadata, name, List(<< _to_date(start), _to_date(end) >>))
    [] key = << "m", "e", "t", "a", "d", "a", "t", "a" >> -> Update(metadata, _parse_metadata_field(value))
    [] OTHER ->
         IF EndsWith(name, << "_", "i", "d" >>) THEN Put(metadata, name, KeptAsString(value))
         ELSE Put(metadata, name, _parse_value(value))

\* _parse_metadata, lines 396-417: the loop over the items of the response
ParsedItems(response) ==
  LET metadata[i \in 0..Len(response)] ==
        IF i = 0 THEN EmptyDict
        ELSE ParseItem(metadata[i - 1], response[i].key, response[i].value,
                       _camel_to_snake(response[i].key))
  IN  metadata[Len(response)]

\* lines 418-420: the acquisition date taken from the temporal coverage
WithAcquisitionDate(metadata) ==
  IF << "a", "c", "q", "u", "i", "s", "i", "t", "i", "o", "n", "_", "d", "a", "t", "e" >> \in DOMAIN metadata THEN Returns(metadata)
  ELSE IF << "t", "e", "m", "p", "o", "r", "a", "l", "_", "c", "o", "v", "e", "r", "a", "g", "e" >> \notin DOMAIN metadata THEN Raises("KeyError")
  ELSE Returns(Put(metadata, << "a", "c", "q", "u", "i", "s", "i", "t", "i", "o", "n", "_", "d", "a", "t", "e" >>,
                   metadata[<< "t", "e", "m", "p", "o", "r", "a", "l", "_", "c", "o", "v", "e", "r", "a", "g", "e" >>].list[1]))

\* _parse_metadata(response, parse_browse_field=False), lines 393-420
_parse_metadata(response) == WithAcquisitionDate(ParsedItems(response))

\* the string values of the provider: numbers, dates, identifiers, text
ValueCores ==
  { << "1", "2", "3" >>, << "-", "7" >>, << "+", "1", "2" >>, << "0", "0", "1", "2", "3" >>, << "1", "2", ".", "5" >>, << "1", "2", ".", "5", "0" >>, << ".", "5" >>, << "5", "." >>,
    << "-", "0", ".", "2", "5" >>, << "n", "o", "t", "-", "a", "-", "n", "u", "m", "b", "e", "r" >>, << >>, << "2", "0", "1", "1", "-", "1", "0", "-", "2", "8" >>, << "2", "0", "1", "1", "/", "1", "0", "/", "2", "8" >>,
    << "2", "0", "1", "1", "1", "0", "2", "8" >>, << "2", "0", "1", "1", "-", "1", "3", "-", "4", "5" >>, << "2", "0", "1", "1", ":", "3", "0", "1", ":", "0", "8", ":", "2", "5", ":", "3", "3", ".", "1", "2", "3", "4", "5", "6", "0" >>,
    << "2", "0", "1", "2", ":", "3", "6", "6", ":", "2", "3", ":", "5", "9", ":", "5", "9", ".", "5" >>, << "2", "0", "1", "1", ":", "4", "0", "0", ":", "0", "8", ":", "2", "5", ":", "3", "3", ".", "1" >>, << "2", "0", "1", "1", ":", "3", "0", "1", ":", "0", "8", ":", "2", "5", ":", "3", "3", ".", "x" >>,
    << "a", ".", "b" >>, << "a", ".", "b", ".", "c" >>, << "L", "C", "0", "8", "_", "L", "1", "T", "P" >> }
LeadingSpace == { << >>, << " " >> }
TrailingSpace == { << >>, << " " >>, << "\n" >> }
\* the values _parse_value is called with
RawValues ==
  { PyString(l \o c \o t) : l \in LeadingSpace, c \in ValueCores, t \in TrailingSpace }
    \cup { PyInt(0), PyInt(123), NoneValue }

Item(key, value) == [key |-> key, value |-> value]
Field(fieldName, link, value) ==
  [fieldName |-> fieldName, dictionaryLink |-> << "h", "t", "t", "p", "s", ":", "/", "/", "l", "t", "a", ".", "c", "r", ".", "u", "s", "g", "s", ".", "g", "o", "v", "/", "D", "D", "/", "x", ".", "p", "h", "p", "#" >> \o link,
   value |-> value]

\* fields of the nested metadata list of a scene
MetadataFields ==
  { Field(<< "L", "a", "n", "d", "s", "a", "t", " ", "P", "r", "o", "d", "u", "c", "t", " ", "I", "d", "e", "n", "t", "i", "f", "i", "e", "r", " ", "L", "1" >>, << "l", "a", "n", "d", "s", "a", "t", "_", "p", "r", "o", "d", "u", "c", "t", "_", "i", "d", "_", "l", "1" >>, PyString(<< " ", "0", "0", "1", "2", "3", " " >>)),
    Field(<< "E", "n", "t", "i", "t", "y", " ", "I", "D" >>, << "e", "n", "t", "i", "t", "y", "_", "i", "d" >>, PyString(<< "0", "0", "1", "2", "3" >>)),
    Field(<< "S", "c", "e", "n", "e", " ", "I", "d", "e", "n", "t", "i", "f", "i", "e", "r" >>, << "s", "c", "e", "n", "e", "_", "i", "d", " " >>, PyInt(123)),
    Field(<< "D", "a", "t", "e", " ", "A", "c", "q", "u", "i", "r", "e", "d" >>, << "d", "a", "t", "e", "_", "a", "c", "q", "u", "i", "r", "e", "d" >>, PyString(<< "2", "0", "1", "1", "/", "1", "0", "/", "2", "8" >>)),
    Field(<< "S", "t", "a", "r", "t", " ", "T", "i", "m", "e" >>, << "s", "t", "a", "r", "t", "_", "t", "i", "m", "e" >>, PyString(<< "2", "0", "1", "1", ":", "3", "0", "1", ":", "0", "8", ":", "2", "5", ":", "3", "3", ".", "1", "2", "3", "4", "5", "6", "0" >>)),
    Field(<< "S", "c", "e", "n", "e", " ", "C", "e", "n", "t", "e", "r", " ", "L", "a", "t", "i", "t", "u", "d", "e" >>, << "c", "o", "o", "r", "d", "i", "n", "a", "t", "e", "s", "_", "d", "e", "g", "r", "e", "e", "s", " " >>, PyString(<< "5", "0", ".", "8", "5" >>)),
    Field(<< "L", "a", "n", "d", " ", "C", "l", "o", "u", "d", " ", "C", "o", "v", "e", "r" >>, << "c", "l", "o", "u", "d", "_", "c", "o", "v", "e", "r", "_", "l", "a", "n", "d" >>, PyString(<< "1", "2", ".", "5", "0" >>)),
    Field(<< "D", "a", "t", "a", " ", "T", "y", "p", "e", " ", "L", "2" >>, << "d", "a", "t", "a", "_", "t", "y", "p", "e", "_", "l", "2" >>, PyString(<< "n", "o", "t", "-", "a", "-", "n", "u", "m", "b", "e", "r" >>)) }
\* the nested metadata lists: up to two fields
MetadataLists ==
  { << >> } \cup { << f >> : f \in MetadataFields }
    \cup { << f, g >> : f \in MetadataFields, g \in MetadataFields }

EntityIdValues == { PyString(<< " ", "0", "0", "1", "2", "3", " " >>), PyString(<< "L", "C", "8", "0", "4", "2", "0", "3", "4", "2", "0", "1", "1", "3", "0", "1", "L", "G", "N", "0", "1" >>), PyInt(123) }
TemporalCoverages ==
  { << >>,
    << Item(<< "t", "e", "m", "p", "o", "r", "a", "l", "C", "o", "v", "e", "r", "a", "g", "e" >>, [endDate |-> PyString(<< "2", "0", "1", "1", "-", "1", "0", "-", "2", "8" >>), startDate |-> PyString(<< "2", "0", "1", "1", "-", "1", "0", "-", "2", "7" >>)]) >> }
\* the scene records of a response: results of scene-search, scene-metadata
Responses ==
  { << Item(<< "e", "n", "t", "i", "t", "y", "I", "d" >>, e), Item(<< "c", "l", "o", "u", "d", "C", "o", "v", "e", "r" >>, PyString(<< "1", "2", ".", "5" >>)),
       Item(<< "b", "r", "o", "w", "s", "e" >>, List(<< >>)), Item(<< "s", "p", "a", "t", "i", "a", "l", "C", "o", "v", "e", "r", "a", "g", "e" >>, "Polygon") >>
      \o t \o << Item(<< "m", "e", "t", "a", "d", "a", "t", "a" >>, l) >> :
    e \in EntityIdValues, t \in TemporalCoverages, l \in MetadataLists }
NoResponse == << >>

\* a value that was not passed or returned yet
Unset == [type |-> "NotCalled"]

\* no response was received and nothing was parsed yet
NormalizerInit ==
  /\ value_arg = Unset
  /\ ret_parse_value = Unset
  /\ md_pc = "idle"
  /\ md_response = NoResponse
  /\ ret_parse_metadata = NotCalled

\* the two download calls for the same scene and output path
Calls == { 1, 2 }
\* the bytes first..last of the scene's file; a byte of an error body is 0
FileBytes(first, last) == [i \in 1..(last - first + 1) |-> first + i - 1]
ErrorBytes(n) == [i \in 1..n |-> 0]

\* no call runs; nothing is known of the file yet
ConcurrentInit ==
  /\ c_filesize = 0
  /\ c_file = None
  /\ c_pc = [c \in Calls |-> "idle"]
  /\ c_file_exists = [c \in Calls |-> FALSE]
  /\ c_downloaded_bytes = [c \in Calls |-> 0]
  /\ c_headers = [c \in Calls |-> NoRange]
  /\ c_file_mode = [c \in Calls |-> "wb"]
  /\ c_body = [c \in Calls |-> << >>]
  /\ c_offset = [c \in Calls |-> 0]
  /\ c_overlap = FALSE

\* the locals of _download when it is not running
NoLocals ==
  /\ local_filename' = "None"
  /\ filesize' = 0
  /\ headers' = NoRange
  /\ file_mode' = "wb"
  /\ downloaded_bytes' = 0
  /\ pbar' = 0
  /\ remaining' = 0

Init ==
  /\ \E s \in Scenes : identifier = s[1] /\ dataset = s[2]
  /\ content_disposition = ContentDisposition(identifier)
  /\ content_length \in 0..MaxSize
  /\ \E size \in {Absent} \cup (0..(MaxSize + MaxExtra)) :
       fs = [p \in Paths |-> IF p = LocalFilename(content_disposition)
                             THEN size ELSE Absent]
  /\ pc = "idle"
  /\ skip = FALSE /\ overwrite = FALSE /\ timeout = 300
  /\ dataset_id_list = << >> /\ id_count = 0 /\ filename = Unbound
  /\ local_filename = "None" /\ filesize = 0 /\ headers = NoRange
  /\ file_mode = "wb" /\ downloaded_bytes = 0 /\ pbar = 0 /\ remaining = 0
  /\ exc = NoException
  /\ result = "None"
  /\ outcome = << >>
  /\ bodyRequests = << >>
  /\ fs0 = fs
  /\ last_skip = "None"
  /\ ApiInit
  /\ PortalInit
  /\ UtilInit
  /\ NormalizerInit
  /\ ConcurrentInit

\* API.get_entity_id as download sees it: an entity id, or an API error
get_entity_id == { Returns("LT51730582011301MLK00"), Raises("USGSError") }

\* download, after _download returned value for the current candidate:
\* filename is assigned and the for loop goes on; after the last candidate
\* the loop ends and filename is returned
Return_download(value) ==
  /\ outcome' = Append(outcome, "ok")
  /\ filename' = value
  /\ NoLocals
  /\ IF id_count + 1 < Len(dataset_id_list)
     THEN /\ id_count' = id_count + 1
          /\ pc' = "probe"
          /\ UNCHANGED << exc, result >>
     ELSE /\ pc' = "returned"
          /\ result' = value
          /\ UNCHANGED << exc, id_count >>

\* Except_EarthExplorerError without the raise after the last candidate: the
\* failure of the last candidate is passed over like the others
Except_EarthExplorerError_pass(e, cause) ==
  /\ outcome' = Append(outcome, cause)
  /\ NoLocals
  /\ IF id_count + 1 < Len(dataset_id_list)
     THEN /\ id_count' = id_count + 1
          /\ pc' = "probe"
          /\ UNCHANGED << exc, result, filename >>
     ELSE /\ pc' = "returned"
          /\ result' = filename
          /\ UNCHANGED << exc, filename, id_count >>

\* download, except EarthExplorerError: the exception e of the current
\* candidate is dropped; the last candidate raises a new EarthExplorerError()
Except_EarthExplorerError(e, cause) ==
  /\ outcome' = Append(outcome, cause)
  /\ NoLocals
  /\ IF id_count + 1 < Len(dataset_id_list)
     THEN /\ id_count' = id_count + 1
          /\ pc' = "probe"
          /\ UNCHANGED << exc, result, filename >>
     ELSE /\ pc' = "raised"
          /\ exc' = [type |-> "EarthExplorerError", msg |-> NoMsg]
          /\ UNCHANGED << result, filename, id_count >>

\* an exception that no except clause of _download or download matches
Propagate(type, cause) ==
  /\ outcome' = Append(outcome, cause)
  /\ NoLocals
  /\ pc' = "raised"
  /\ exc' = [type |-> type, msg |-> NoMsg]
  /\ UNCHANGED << result, filename, id_count >>

\* download: if not dataset: dataset = guess_dataset(identifier)
GuessedOrGiven(id, ds) == IF ds = "None" THEN guessed_dataset[id] ELSE Returns(ds)

\* download: dataset = guess_dataset(identifier) when no dataset is given,
\* then entity_id = self.api.get_entity_id(identifier, dataset) for a display
\* id: the dataset download goes on with, or the exception raised
ResolveScene(id, ds) ==
  LET guessed == GuessedOrGiven(id, ds)
  IN  IF guessed.exc # NoExc THEN { guessed }
      ELSE IF id \in display_ids
      THEN { IF entity_id.exc # NoExc THEN entity_id ELSE guessed :
               entity_id \in get_entity_id }
      ELSE { guessed }

\* download(identifier, output_dir, dataset, timeout, skip, overwrite), up to
\* the for loop; e is what guess_dataset and get_entity_id did
Download(s, o, t, e) ==
  /\ pc \in {"idle", "returned", "raised"}
  /\ \A p \in DOMAIN fs : fs[p] <= MaxSize + MaxExtra
  /\ skip' = s /\ overwrite' = o /\ timeout' = t
  /\ fs0' = fs
  /\ last_skip' = IF pc = "returned" /\ skip THEN result ELSE last_skip
  /\ outcome' = << >>
  /\ bodyRequests' = << >>
  /\ filename' = Unbound
  /\ result' = "None"
  /\ id_count' = 0
  /\ IF e.exc # NoExc
     THEN /\ pc' = "raised"
          /\ exc' = [type |-> e.exc, msg |-> NoMsg]
          /\ dataset_id_list' = << >>
     ELSE IF e.value \notin DOMAIN DATA_PRODUCTS
     THEN /\ pc' = "raised"
          /\ exc' = [type |-> "KeyError", msg |-> NoMsg]
          /\ dataset_id_list' = << >>
     ELSE /\ pc' = "probe"
          /\ exc' = NoException
          /\ dataset_id_list' = DATA_PRODUCTS[e.value]
  /\ UNCHANGED << client, env, fs, locals >>

\* _download: the probe request and its JSON answer
Probe ==
  /\ pc = "probe"
  /\ \E rsp \in {"url", "errorMessage", "httpError", "timeout"} :
       CASE rsp = "url" ->
              /\ pc' = "fileinfo"
              /\ UNCHANGED << locals, id_count, filename, exc, result, outcome >>
         [] rsp = "errorMessage" ->
              Except_EarthExplorerError(
                [type |-> "EarthExplorerError", msg |-> ProviderMsg], "errorMessage")
         [] rsp = "httpError" -> Propagate("HTTPError", "httpError")
         [] rsp = "timeout"   -> Propagate("Timeout", "probeTimeout")
  /\ UNCHANGED << client, env, args, fs, dataset_id_list, bodyRequests, fs0, last_skip >>

\* GetFileinfo without the test of skip: the transfer goes on
GetFileinfo_noskip ==
  /\ pc = "fileinfo"
  /\ pc' = "exists"
  /\ local_filename' = LocalFilename(content_disposition)
  /\ filesize' = content_length
  /\ UNCHANGED << headers, file_mode, downloaded_bytes, pbar, remaining, id_count,
                  filename, exc, result, outcome >>
  /\ UNCHANGED << client, env, args, fs, dataset_id_list, bodyRequests, fs0, last_skip >>

\* _download: _get_fileinfo, then if skip: return local_filename
GetFileinfo ==
  /\ pc = "fileinfo"
  /\ \E rsp \in {"headers", "noContentLength", "noContentDisposition", "timeout"} :
       CASE rsp = "headers" ->
              IF skip
              THEN Return_download(LocalFilename(content_disposition))
              ELSE /\ pc' = "exists"
                   /\ local_filename' = LocalFilename(content_disposition)
                   /\ filesize' = content_length
                   /\ UNCHANGED << headers, file_mode, downloaded_bytes, pbar,
                                   remaining, id_count, filename, exc, result,
                                   outcome >>
         [] rsp = "noContentLength"      -> Propagate("TypeError", "missingHeader")
         [] rsp = "noContentDisposition" -> Propagate("KeyError", "missingHeader")
         [] rsp = "timeout" ->
              Except_EarthExplorerError(
                [type |-> "EarthExplorerError", msg |-> TimeoutMsg(timeout)],
                "infoTimeout")
  /\ UNCHANGED << client, env, args, fs, dataset_id_list, bodyRequests, fs0, last_skip >>

\* CheckExisting without the return for a file that is already complete
CheckExisting_nocomplete ==
  /\ pc = "exists"
  /\ LET file_exists == fs[local_filename] # Absent
         resume      == file_exists /\ ~overwrite
         bytes       == IF resume THEN fs[local_filename] ELSE 0
     IN  /\ pc' = "request"
         /\ downloaded_bytes' = bytes
         /\ headers' = IF resume THEN bytes ELSE NoRange
         /\ file_mode' = IF resume THEN "ab" ELSE "wb"
         /\ UNCHANGED << local_filename, filesize, pbar, remaining, id_count,
                         filename, exc, result, outcome >>
  /\ UNCHANGED << client, env, args, fs, dataset_id_list, bodyRequests, fs0, last_skip >>

\* CheckExisting that sets the Range header but leaves file_mode at "wb"
CheckExisting_truncate ==
  /\ pc = "exists"
  /\ LET file_exists == fs[local_filename] # Absent
         resume      == file_exists /\ ~overwrite
         bytes       == IF resume THEN fs[local_filename] ELSE 0
     IN  IF file_exists /\ bytes = filesize
         THEN Return_download(local_filename)
         ELSE /\ pc' = "request"
              /\ downloaded_bytes' = bytes
              /\ headers' = IF resume THEN bytes ELSE NoRange
              /\ file_mode' = "wb"
              /\ UNCHANGED << local_filename, filesize, pbar, remaining, id_count,
                              filename, exc, result, outcome >>
  /\ UNCHANGED << client, env, args, fs, dataset_id_list, bodyRequests, fs0, last_skip >>

\* _download: the existence and size checks that choose between resuming,
\* returning at once and transferring from scratch
CheckExisting ==
  /\ pc = "exists"
  /\ LET file_exists == fs[local_filename] # Absent
         resume      == file_exists /\ ~overwrite
         bytes       == IF resume THEN fs[local_filename] ELSE 0
     IN  IF file_exists /\ bytes = filesize
         THEN Return_download(local_filename)
         ELSE /\ pc' = "request"
              /\ downloaded_bytes' = bytes
              /\ headers' = IF resume THEN bytes ELSE NoRange
              /\ file_mode' = IF resume THEN "ab" ELSE "wb"
              /\ UNCHANGED << local_filename, filesize, pbar, remaining, id_count,
                              filename, exc, result, outcome >>
  /\ UNCHANGED << client, env, args, fs, dataset_id_list, bodyRequests, fs0, last_skip >>

\* server: the number of body bytes sent in answer to a request with the
\* given Range start; a range at or past the end of the file is answered
\* with an error body
BodyLengths(range) ==
  IF range = NoRange THEN { content_length }
  ELSE IF range < content_length THEN { content_length - range }
  ELSE 0..MaxErrBody

\* _download: the body request, and the progress bar made for it
BodyRequest ==
  /\ pc = "request"
  /\ bodyRequests' = Append(bodyRequests,
                            [candidate |-> id_count, range |-> headers,
                             mode |-> file_mode, ondisk |-> fs[local_filename]])
  /\ \E rsp \in {"ok", "timeout"} :
       CASE rsp = "ok" ->
              /\ \E n \in BodyLengths(headers) : remaining' = n
              /\ pbar' = downloaded_bytes
              /\ pc' = "open"
              /\ UNCHANGED << local_filename, filesize, headers, file_mode,
                              downloaded_bytes, id_count, filename, exc, result,
                              outcome >>
         [] rsp = "timeout" ->
              Except_EarthExplorerError(
                [type |-> "EarthExplorerError", msg |-> TimeoutMsg(timeout)],
                "bodyTimeout")
  /\ UNCHANGED << client, env, args, fs, dataset_id_list, fs0, last_skip >>

\* _download: open(local_filename, file_mode)
OpenFile ==
  /\ pc = "open"
  /\ fs' = [fs EXCEPT ![local_filename] =
              IF file_mode = "wb" \/ @ = Absent THEN 0 ELSE @]
  /\ pc' = "write"
  /\ UNCHANGED << client, env, args, dataset_id_list, id_count, filename, locals,
                  exc, result, outcome, bodyRequests, fs0, last_skip >>

\* _download: one round of the iter_content loop
WriteChunk ==
  /\ pc = "write"
  /\ remaining > 0
  /\ LET chunk == Min(ChunkSize, remaining)
     IN  /\ fs' = [fs EXCEPT ![local_filename] = @ + chunk]
         /\ remaining' = remaining - chunk
  /\ pbar' = pbar + ChunkSize
  /\ UNCHANGED << client, env, args, pc, dataset_id_list, id_count, filename,
                  local_filename, filesize, headers, file_mode, downloaded_bytes,
                  exc, result, outcome, bodyRequests, fs0, last_skip >>

\* _download: the body is exhausted, return local_filename
TransferDone ==
  /\ pc = "write"
  /\ remaining = 0
  /\ Return_download(local_filename)
  /\ UNCHANGED << client, env, args, fs, dataset_id_list, bodyRequests, fs0, last_skip >>

Next ==
  \/ \E e \in ResolveScene(identifier, dataset) :
       \E s \in BOOLEAN, o \in BOOLEAN, t \in Timeouts : Download(s, o, t, e)
  \/ Probe
  \/ GetFileinfo
  \/ CheckExisting
  \/ BodyRequest
  \/ OpenFile
  \/ WriteChunk
  \/ TransferDone

Spec == Init /\ [][Next]_<< vars, client >>

TypeOK ==
  /\ pc \in {"idle", "probe", "fileinfo", "exists", "request", "open", "write",
             "returned", "raised"}
  /\ fs \in [Paths -> {Absent} \cup Nat]

(***************************************************************************)
(* Properties of download                                                  *)
(***************************************************************************)
\* the local path of the scene's file
Target == LocalFilename(content_disposition)
\* the current call has ended
Finished == pc \in {"returned", "raised"}
\* the candidates for which a probe request has been issued in this call
ProbesIssued ==
  Len(outcome) + (IF pc \in {"fileinfo", "exists", "request", "open", "write"}
                  THEN 1 ELSE 0)
Succeeded == { i \in 1..Len(outcome) : outcome[i] = "ok" }
TimedOut ==
  { i \in 1..Len(outcome) : outcome[i] \in {"probeTimeout", "infoTimeout", "bodyTimeout"} }
AllProviderErrors ==
  /\ outcome # << >>
  /\ \A i \in 1..Len(outcome) : outcome[i] = "errorMessage"

\* the failures of candidates in this call are all of the kind download
\* catches (EarthExplorerError)
OnlyCaughtFailures ==
  \A i \in 1..Len(outcome) :
    outcome[i] \in {"ok", "errorMessage", "infoTimeout", "bodyTimeout"}

\* C1: when the call has ended and at least one candidate succeeded, whatever
\* the other candidates did, download has returned, without an error, the
\* local path that candidate produced
C1_FirstSuccessReturned ==
  (Finished /\ Succeeded # {} /\ OnlyCaughtFailures) =>
    (pc = "returned" /\ result = Target)

\* C2: once _download has returned normally for a candidate no request is
\* issued for a later candidate, and the body is transferred at most once in
\* a call
C2_StopsAtFirstSuccess ==
  /\ \A i \in Succeeded : ProbesIssued = i
  /\ Cardinality({ k \in 1..Len(bodyRequests) :
                     bodyRequests[k].candidate + 1 \in Succeeded }) <= 1

\* C3: when every candidate tried has answered its probe with a provider
\* error message, download does not return; it raises exactly when all N
\* candidates have been tried, the error is EarthExplorerError, and no file
\* has been created or modified
C3_AllCandidatesFail ==
  AllProviderErrors =>
    /\ pc # "returned"
    /\ (pc = "raised") <=> (Len(outcome) = Len(dataset_id_list))
    /\ pc = "raised" => (exc.type = "EarthExplorerError" /\ fs = fs0)

C3_Witness ==
  /\ pc = "raised"
  /\ AllProviderErrors
  /\ Len(outcome) = 3
  /\ exc.type = "EarthExplorerError"
  /\ fs[Target] = Absent

\* C4: in a call with overwrite false on a local file of size S < E, every
\* body request carries a Range header that starts at the size the file has
\* on disk, the first one at S, and is written in append mode; when the call
\* returns the file has size E
C4_ResumeCorrect ==
  (pc # "idle" /\ ~skip /\ ~overwrite /\ fs0[Target] # Absent
     /\ fs0[Target] < content_length) =>
    /\ \A k \in 1..Len(bodyRequests) :
         /\ bodyRequests[k].mode = "ab"
         /\ bodyRequests[k].range = bodyRequests[k].ondisk
    /\ bodyRequests # << >> => bodyRequests[1].range = fs0[Target]
    /\ pc = "returned" => (bodyRequests # << >> /\ fs[Target] = content_length)

C4_Witness ==
  /\ pc = "returned"
  /\ ~skip /\ ~overwrite
  /\ fs0[Target] = 1
  /\ content_length = 3
  /\ bodyRequests # << >>
  /\ bodyRequests[1].range = 1
  /\ fs[Target] = 3

\* C5: in a call with skip false on a local file whose size equals the
\* expected size E, for either value of overwrite, no body-transfer request is
\* issued, the file is left unchanged and download returns the local path
C5_CompleteFileShortCircuit ==
  (pc # "idle" /\ ~skip /\ fs0[Target] = content_length) =>
    /\ bodyRequests = << >>
    /\ fs = fs0
    /\ pc = "returned" => result = Target

\* C5, amended: in a call with skip false and overwrite false on a local file
\* whose size equals the expected size E, no body-transfer request is issued,
\* the file is left unchanged, every candidate whose probe and file-info
\* requests succeed returns from _download, and what download returns is the
\* local path
C5_CompleteFileShortCircuitNoOverwrite ==
  (pc # "idle" /\ ~skip /\ ~overwrite /\ fs0[Target] = content_length) =>
    /\ bodyRequests = << >>
    /\ fs = fs0
    /\ pc \notin {"request", "open", "write"}
    /\ pc = "returned" => result = Target

C5_Witness ==
  /\ pc = "returned"
  /\ ~skip /\ ~overwrite
  /\ content_length = MaxSize
  /\ fs0[Target] = content_length
  /\ fs = fs0
  /\ result = Target

C7_TimeoutReachesCaller ==
  (Finished /\ TimedOut # {}) =>
    /\ pc = "raised"
    /\ exc = [type |-> "EarthExplorerError", msg |-> TimeoutMsg(timeout)]

\* C8: no failure of a candidate reaches the caller while untried candidates
\* remain
C8_CandidateFailuresCaught ==
  (pc = "raised" /\ outcome # << >>) => Len(outcome) = Len(dataset_id_list)

\* C9: a download of a scene whose identifier is invalid or whose dataset has
\* no candidate product-template ids raises EarthExplorerError
C9_UnavailableRaisesEarthExplorerError ==
  LET guessed == GuessedOrGiven(identifier, dataset)
  IN  (pc = "raised" /\ (guessed.exc # NoExc \/ guessed.value \notin DOMAIN DATA_PRODUCTS))
        => exc.type = "EarthExplorerError"

\* C10: a skip=True download of a valid scene of a supported dataset finds a
\* non-empty candidate list, and returns a non-empty file name when the
\* server accepts the last candidate
C10_SupportedDatasetsDownload ==
  LET guessed == GuessedOrGiven(identifier, dataset)
  IN  (pc # "idle" /\ skip /\ guessed.exc = NoExc
         /\ (\E i \in 1..Len(DATASETS) : DATASETS[i] = guessed.value)
         /\ exc.type # "USGSError") =>
        /\ dataset_id_list # << >>
        /\ (Len(outcome) = Len(dataset_id_list) /\ outcome[Len(outcome)] = "ok")
             => (pc = "returned" /\ result # "")

(***************************************************************************)
(* api.py: the catalog client                                              *)
(***************************************************************************)
\* provider: a response without an error code answers a request it served
Served(code) == ~TruthyStr(code)

\* provider: the error codes it may answer a request with; a request other
\* than login is served only when it carries a token the provider accepts
Answers(tok) ==
  IF tok \in server_tokens THEN ErrorCodes
  ELSE { c \in ErrorCodes : ~Served(c) }

\* provider: the entity ids of the display ids its catalogue holds, in order
Resolved(ids) ==
  LET known == SelectSeq(ids, LAMBDA d : d \in DOMAIN Catalog)
  IN  [i \in 1..Len(known) |-> Catalog[known[i]]]

\* provider: what serving a request of the running method does
Serve(ep, code) ==
  /\ server_tokens' = IF Served(code) /\ ep = "logout"
                      THEN server_tokens \ {x_auth_token} ELSE server_tokens
  /\ server_lists' =
       IF Served(code) /\ ep = "scene-list-add"
       THEN [server_lists EXCEPT ![list_id] = Some(Resolved(display_id.ids))]
       ELSE IF Served(code) /\ ep = "scene-list-remove"
            THEN [server_lists EXCEPT ![list_id] = None]
            ELSE server_lists
  /\ created' = IF Served(code) /\ ep = "scene-list-add"
                THEN created \cup {list_id} ELSE created

\* provider: the data of a served scene-list-get: the scenes of the list,
\* or the same with a record that lacks its entityId
GetData(lid) ==
  LET ids == IF server_lists[lid] = None THEN << >>
             ELSE CHOOSE c \in server_lists[lid] : TRUE
      scenes == [i \in 1..Len(ids) |-> [entityId |-> ids[i]]]
  IN  {scenes} \cup
      (IF scenes = << >> THEN {}
       ELSE { [scenes EXCEPT ![1] = [displayId |-> "None"]] })

\* get_entity_id, lines 134-136: the parameter that carries display_id
param(did) == IF did.list THEN "entityIds" ELSE "entityId"

\* get_entity_id, line 152: [scene["entityId"] for scene in r]
EntityIds_reversed(r) == [i \in 1..Len(r) |-> r[Len(r) + 1 - i].entityId]
EntityIds(r) == [i \in 1..Len(r) |-> r[i].entityId]

\* a method starts: the history and the results of the last call are reset
StartMethod(op, did, lid, a, sf) ==
  /\ api_pc = "idle"
  /\ api_op' = op
  /\ display_id' = did
  /\ list_id' = lid
  /\ search_args' = a
  /\ scene_filter' = sf
  /\ api_exc' = NoExc
  /\ api_value' = NoIds
  /\ entity_ids' = << >>
  /\ created' = {}

\* request, lines 79-81: the first GET goes out
SendRequest(ep, lid, log) ==
  /\ api_pc' = "request1"
  /\ endpoint' = ep
  /\ http' = Append(log, HttpRequest("GET", ep, x_auth_token, lid))

\* an exception leaves the running method; the locals of search are gone
ApiRaises(type, log) ==
  /\ api_pc' = "idle"
  /\ api_exc' = type
  /\ http' = log
  /\ search_args' = NoSearch
  /\ scene_filter' = None
  /\ UNCHANGED << constructed, x_auth_token, api_op, endpoint, display_id,
                  list_id, entity_ids, api_value, logged_out >>

\* logout, line 109, with the session kept
LogoutReturns_keep(log) ==
  /\ x_auth_token' = x_auth_token
  /\ logged_out' = TRUE
  /\ api_pc' = "idle"
  /\ http' = log
  /\ UNCHANGED << constructed, api_op, endpoint, display_id, list_id,
                  entity_ids, search_args, scene_filter, api_exc, api_value >>

\* logout, line 109: self.session = requests.Session()
LogoutReturns(log) ==
  /\ x_auth_token' = NoToken
  /\ logged_out' = TRUE
  /\ api_pc' = "idle"
  /\ http' = log
  /\ UNCHANGED << constructed, api_op, endpoint, display_id, list_id,
                  entity_ids, search_args, scene_filter, api_exc, api_value >>

\* search, line 274: the results are returned
SearchReturns(log) ==
  /\ api_pc' = "idle"
  /\ http' = log
  /\ search_args' = NoSearch
  /\ scene_filter' = None
  /\ UNCHANGED << constructed, x_auth_token, api_op, endpoint, display_id,
                  list_id, entity_ids, api_exc, api_value, logged_out >>

\* get_entity_id, lines 151-158, after a request of it returned
GetEntityIdContinues(log) ==
  \/ /\ endpoint = "scene-list-add"
     /\ SendRequest("scene-list-get", list_id, log)
     /\ UNCHANGED << constructed, x_auth_token, api_op, display_id, list_id,
                     entity_ids, search_args, scene_filter, api_exc, api_value,
                     logged_out >>
  \/ /\ endpoint = "scene-list-get"
     /\ \E r \in GetData(list_id) :
          IF \A i \in 1..Len(r) : "entityId" \in DOMAIN r[i]
          THEN /\ entity_ids' = EntityIds(r)
               /\ SendRequest("scene-list-remove", list_id, log)
               /\ UNCHANGED << constructed, x_auth_token, api_op, display_id,
                               list_id, search_args, scene_filter, api_exc,
                               api_value, logged_out >>
          ELSE ApiRaises("KeyError", log)
  \/ /\ endpoint = "scene-list-remove"
     /\ IF param(display_id) = "entityId"
        THEN IF entity_ids = << >>
             THEN ApiRaises("IndexError", log)
             ELSE /\ api_value' = Single(entity_ids[1])
                  /\ api_pc' = "idle"
                  /\ http' = log
                  /\ UNCHANGED << constructed, x_auth_token, api_op, endpoint,
                                  display_id, list_id, entity_ids, search_args,
                                  scene_filter, api_exc, logged_out >>
        ELSE /\ api_value' = Batch(entity_ids)
             /\ api_pc' = "idle"
             /\ http' = log
             /\ UNCHANGED << constructed, x_auth_token, api_op, endpoint,
                             display_id, list_id, entity_ids, search_args,
                             scene_filter, api_exc, logged_out >>

\* request returned its data to the method that called it
RequestReturns(log) ==
  \/ api_op = "logout" /\ LogoutReturns(log)
  \/ api_op = "search" /\ SearchReturns(log)
  \/ api_op = "get_entity_id" /\ GetEntityIdContinues(log)

\* API.login, lines 100-102: the credentials are posted
Login ==
  /\ StartMethod("login", NoIds, NoList, NoSearch, None)
  /\ api_pc' = "login_post"
  /\ endpoint' = "login"
  /\ http' = << HttpRequest("POST", "login", x_auth_token, NoList) >>
  /\ UNCHANGED << constructed, x_auth_token, server_tokens, server_lists,
                  logged_out >>
  /\ UNCHANGED << vars, portal, library >>

\* API.login, lines 103-104: the response; a served login issues a token
\* the provider did not accept before
LoginResponse ==
  /\ api_pc = "login_post"
  /\ \E code \in ErrorCodes :
       LET e == raise_api_error(code)
           log == Append(http, HttpResponse(code))
       IN  IF e.exc # NoExc
           THEN /\ ApiRaises(e.exc, log)
                /\ UNCHANGED server_tokens
           ELSE \E tok \in Tokens \ server_tokens :
                  /\ x_auth_token' = tok
                  /\ server_tokens' = server_tokens \cup {tok}
                  /\ constructed' = TRUE
                  /\ api_pc' = "idle"
                  /\ http' = log
                  /\ UNCHANGED << api_op, endpoint, display_id, list_id,
                                  entity_ids, search_args, scene_filter,
                                  api_exc, api_value, logged_out >>
  /\ UNCHANGED << server_lists, created >>
  /\ UNCHANGED << vars, portal, library >>

\* API.logout, line 108: self.request("logout")
Logout ==
  /\ constructed
  /\ StartMethod("logout", NoIds, NoList, NoSearch, None)
  /\ SendRequest("logout", NoList, << >>)
  /\ UNCHANGED << constructed, x_auth_token, server_tokens, server_lists,
                  logged_out >>
  /\ UNCHANGED << vars, portal, library >>

\* API.get_entity_id, lines 134-150: a list id is drawn and scene-list-add
\* is requested
GetEntityId ==
  /\ constructed
  /\ \E did \in DisplayIds, lid \in { l \in ListIds : server_lists[l] = None } :
       /\ StartMethod("get_entity_id", did, lid, NoSearch, None)
       /\ SendRequest("scene-list-add", lid, << >>)
  /\ UNCHANGED << constructed, x_auth_token, server_tokens, server_lists,
                  logged_out >>
  /\ UNCHANGED << vars, portal, library >>

\* API.search, lines 245-273: the scene filter is made and scene-search
\* is requested
Search ==
  /\ constructed
  /\ \E a \in SearchArgs :
       LET sf == search_scene_filter(a.longitude, a.latitude, a.bbox,
                                     a.max_cloud_cover, a.start_date,
                                     a.end_date, a.months)
       IN  /\ StartMethod("search", NoIds, NoList, a, Some(sf))
           /\ SendRequest("scene-search", NoList, << >>)
  /\ UNCHANGED << constructed, x_auth_token, server_tokens, server_lists,
                  logged_out >>
  /\ UNCHANGED << vars, portal, library >>

\* request, lines 82-88: the first response; when it raises an exception
\* of one of the classes caught, sleep and send the request again
FirstResponse(caught) ==
  /\ api_pc = "request1"
  /\ \E code \in Answers(x_auth_token) :
       LET e == raise_api_error(code)
           log == Append(http, HttpResponse(code))
           last == http[Len(http)]
       IN  /\ Serve(endpoint, code)
           /\ IF e.exc \in caught
              THEN /\ api_pc' = "request2"
                   /\ http' = log \o << Sleep(Backoff),
                                        [last EXCEPT !.token = x_auth_token] >>
                   /\ UNCHANGED << constructed, x_auth_token, api_op, endpoint,
                                   display_id, list_id, entity_ids, search_args,
                                   scene_filter, api_exc, api_value,
                                   logged_out >>
              ELSE IF e.exc # NoExc
                   THEN ApiRaises(e.exc, log)
                   ELSE RequestReturns(log)
  /\ UNCHANGED << vars, portal, library >>

\* request with "except Exception" in the place of line 84
Response1_except_all == FirstResponse(ErrorClasses)

\* request, lines 82-88, with except USGSRateLimitError
Response1 == FirstResponse(CaughtBy("USGSRateLimitError"))

\* request, lines 87-88: the response to the request sent again
Response2 ==
  /\ api_pc = "request2"
  /\ \E code \in Answers(x_auth_token) :
       LET e == raise_api_error(code)
           log == Append(http, HttpResponse(code))
       IN  /\ Serve(endpoint, code)
           /\ IF e.exc # NoExc
              THEN ApiRaises(e.exc, log)
              ELSE RequestReturns(log)
  /\ UNCHANGED << vars, portal, library >>

ApiNext ==
  \/ Login
  \/ LoginResponse
  \/ Logout
  \/ GetEntityId
  \/ Response1
  \/ Response2

\* the catalog client that logs in and searches
SearchNext ==
  \/ Login
  \/ LoginResponse
  \/ Search
  \/ Response1
  \/ Response2

\* a download that is not running
DownloadRest ==
  /\ identifier = "LT51950511995219MPS00"
  /\ dataset = "None"
  /\ content_length = 0
  /\ fs = [p \in Paths |-> Absent]

ClientInit == Init /\ DownloadRest

ApiSpec == ClientInit /\ [][ApiNext]_<< vars, client >>

SearchSpec == ClientInit /\ [][SearchNext]_<< vars, client >>

(***************************************************************************)
(* earthexplorer.py: the portal session                                    *)
(***************************************************************************)
EE_LOGIN_URL == "https://ers.cr.usgs.gov/login/"
EE_LOGOUT_URL == "https://earthexplorer.usgs.gov/logout"

\* portal: the login pages it serves, each as the values of the csrf
\* fields in it, which is what re.findall extracts: no field, or one
LoginPages == { << >>, << "csrf1" >>, << "csrf2" >> }

\* _get_token, lines 33-40, on the matches found in the page
_get_token(matches) ==
  IF matches = << >> THEN Raises("IndexError")
  ELSE IF matches[1] = ""
       THEN Raises("EarthExplorerError")
       ELSE Returns(matches[1])

\* portal: the value of the EROS_SSO_production_secure cookie after the
\* answer to the credential POST: left as it was, removed, emptied, or set,
\* which needs the credentials of an account
CookiesAfterPost(cred) ==
  { cookies, None, Some("") } \cup
  (IF cred = [username |-> "user", password |-> "pass"]
   THEN { Some("sso") } ELSE {})

\* EarthExplorer.logged_in with the cookie test left out
logged_in_always(jar) == TRUE

\* EarthExplorer.logged_in, lines 53-54, on the cookie jar
logged_in(jar) == TruthyStr(jar)

EERequest(method, url, token, username) ==
  [method |-> method, url |-> url, csrf |-> token, username |-> username]

\* EarthExplorer.login, line 58: the login page is requested
EELogin ==
  /\ ee_pc = "idle"
  /\ \E cred \in Credentials : credentials' = cred
  /\ ee_pc' = "login_get"
  /\ csrf' = None
  /\ ee_exc' = NoExc
  /\ ee_http' = << EERequest("GET", EE_LOGIN_URL, None, "None") >>
  /\ UNCHANGED << cookies, logged_in_value >>
  /\ UNCHANGED << vars, api, library >>

\* EarthExplorer.login, lines 59-65: the token is taken from the page and
\* the credentials are posted
EELoginPage ==
  /\ ee_pc = "login_get"
  /\ \E page \in LoginPages :
       LET token == _get_token(page)
       IN  IF token.exc # NoExc
           THEN /\ ee_exc' = token.exc
                /\ ee_pc' = "idle"
                /\ UNCHANGED << csrf, ee_http >>
           ELSE /\ csrf' = Some(token.value)
                /\ ee_pc' = "login_post"
                /\ ee_http' = Append(ee_http,
                                     EERequest("POST", EE_LOGIN_URL,
                                               Some(token.value),
                                               credentials.username))
                /\ UNCHANGED ee_exc
  /\ UNCHANGED << cookies, credentials, logged_in_value >>
  /\ UNCHANGED << vars, api, library >>

\* EarthExplorer.login, lines 65-68: the answer to the POST, then the
\* cookie test
EELoginPost ==
  /\ ee_pc = "login_post"
  /\ \E jar \in CookiesAfterPost(credentials) :
       /\ cookies' = jar
       /\ ee_exc' = IF ~logged_in(jar) THEN "EarthExplorerError" ELSE NoExc
  /\ ee_pc' = "idle"
  /\ UNCHANGED << credentials, csrf, ee_http, logged_in_value >>
  /\ UNCHANGED << vars, api, library >>

\* EarthExplorer.logout, line 72; the portal may remove the cookie
EELogout ==
  /\ ee_pc = "idle"
  /\ ee_http' = << EERequest("GET", EE_LOGOUT_URL, None, "None") >>
  /\ cookies' \in { cookies, None }
  /\ ee_exc' = NoExc
  /\ credentials' = NoCredentials
  /\ csrf' = None
  /\ UNCHANGED << ee_pc, logged_in_value >>
  /\ UNCHANGED << vars, api, library >>

\* a caller asks logged_in() between two calls
LoggedIn ==
  /\ ee_pc = "idle"
  /\ logged_in_value' = IF logged_in(cookies) THEN "True" ELSE "False"
  /\ UNCHANGED << cookies, ee_pc, credentials, csrf, ee_http, ee_exc >>
  /\ UNCHANGED << vars, api, library >>

PortalNext ==
  \/ EELogin
  \/ EELoginPage
  \/ EELoginPost
  \/ EELogout
  \/ LoggedIn

PortalSpec == ClientInit /\ [][PortalNext]_<< vars, client >>

(***************************************************************************)
(* Properties of the catalog client                                        *)
(***************************************************************************)
\* the current method call has ended
ApiFinished == api_pc = "idle" /\ api_op # "None"
RateLimited == HttpResponse(Some("RATE_LIMIT"))
\* entry i of http is a GET of request that was not sent before
FirstSend(i) ==
  /\ http[i].kind = "GET"
  /\ i = 1 \/ http[i - 1].kind # "sleep"
\* entry i of http is a GET of request sent again after the backoff
SentAgain(i) ==
  /\ http[i].kind = "GET"
  /\ i > 1 /\ http[i - 1].kind = "sleep"
\* entry i of http is the response to a GET of request
ResponseToGet(i) ==
  /\ i > 1
  /\ http[i].kind = "response"
  /\ http[i - 1].kind = "GET"
\* the endpoints of the GETs of this method call, in the order sent
Gets == SelectSeq(http, LAMBDA h : h.kind = "GET")

\* C11: API.request sends a request again only after a RATE_LIMIT answer to
\* its first sending, after sleeping the fixed backoff, and the request sent
\* again is the same request; it is sent again once, so that no endpoint is
\* requested more than twice in a call; the answer to the request sent
\* again, and any answer other than RATE_LIMIT to the first sending, ends
\* the call with the exception raise_api_error makes of it
\* (USGSRateLimitError for a second RATE_LIMIT) and nothing is sent after it.
C11_RetryOnceOnRateLimit ==
  /\ \A i \in 1..Len(http) :
       /\ http[i].kind = "sleep" =>
            /\ http[i].seconds = Backoff
            /\ i > 2 /\ i < Len(http)
            /\ http[i - 1] = RateLimited
            /\ FirstSend(i - 2)
            /\ http[i + 1] = http[i - 2]
       /\ SentAgain(i) => http[i - 1] = Sleep(Backoff)
       /\ ResponseToGet(i) /\ FirstSend(i - 1) /\ http[i] = RateLimited =>
            /\ Len(http) >= i + 2
            /\ http[i + 1] = Sleep(Backoff)
            /\ http[i + 2] = http[i - 1]
       /\ /\ ResponseToGet(i)
          /\ raise_api_error(http[i].code).exc # NoExc
          /\ SentAgain(i - 1) \/ http[i] # RateLimited
          => /\ i = Len(http)
             /\ api_pc = "idle"
             /\ api_exc = raise_api_error(http[i].code).exc
  /\ \A ep \in { "logout", "scene-list-add", "scene-list-get",
                 "scene-list-remove", "scene-search" } :
       Len(SelectSeq(Gets, LAMBDA h : h.endpoint = ep)) <= 2

\* a call in which request was rate limited twice: the request went out
\* twice with the backoff between, and USGSRateLimitError reached the caller
C11_Witness ==
  /\ ApiFinished
  /\ api_op = "get_entity_id"
  /\ api_exc = "USGSRateLimitError"
  /\ Len(http) = 7
  /\ http[7] = RateLimited
  /\ http[5] = Sleep(Backoff)
  /\ http[4] = RateLimited
  /\ http[3].endpoint = "scene-list-get"
  /\ http[6] = http[3]

\* the last entry of the history of this call
LastHttp == http[Len(http)]
\* the call ended with the response that is the last entry of its history
EndedByResponse ==
  /\ ApiFinished
  /\ http # << >>
  /\ LastHttp.kind = "response"
\* the provider's error codes for invalid credentials, an invalid API key
\* and a user who lacks permission
ProviderAuthCodes ==
  { Some("AUTH_INVALID"), Some("AUTH_KEY_INVALID"), Some("AUTH_UNAUTHORIZED") }

\* C12: a call that ends with a response carrying an error code for invalid
\* credentials, an invalid API key or a user lacking permission raises
\* USGSAuthenticationError, a class that except clauses for USGSError and
\* USGSRateLimitError do not catch.
C12_AuthErrorsRaiseAuthenticationError ==
  /\ "USGSAuthenticationError" \notin
       CaughtBy("USGSError") \cup CaughtBy("USGSRateLimitError")
  /\ EndedByResponse /\ LastHttp.code \in ProviderAuthCodes =>
       api_exc = "USGSAuthenticationError"

\* the error codes raise_api_error names
RecognizedCodes ==
  { Some("AUTH_INVALID"), Some("AUTH_UNAUTHROIZED"), Some("AUTH_KEY_INVALID"),
    Some("RATE_LIMIT") }
\* the exceptions raise_api_error raises
ApiErrors == { "USGSError", "USGSAuthenticationError", "USGSRateLimitError" }
\* the call ended with the response to a GET of request
EndedByResponseToGet ==
  /\ EndedByResponse
  /\ ResponseToGet(Len(http))

\* C13 as stated: a call of request whose response carries no error code, or
\* one that raise_api_error does not name, raises no API error.
C13_UnrecognizedCodesPassThrough ==
  EndedByResponseToGet /\ LastHttp.code \notin RecognizedCodes =>
    api_exc \notin ApiErrors

\* C13, amended: a call of request whose response carries no error code (or
\* an empty one) raises no API error and hands the data to its caller; a
\* response with any other code that is neither an authentication code nor
\* RATE_LIMIT, named by raise_api_error or not, raises USGSError.
C13_OnlyAbsentCodesPassThrough ==
  /\ EndedByResponseToGet /\ ~TruthyStr(LastHttp.code) =>
       api_exc \notin ApiErrors
  /\ EndedByResponseToGet /\ TruthyStr(LastHttp.code)
       /\ LastHttp.code \notin RecognizedCodes =>
       api_exc = "USGSError"
  /\ \A i \in 1..Len(http) :
       ResponseToGet(i) /\ i < Len(http) =>
         \/ ~TruthyStr(http[i].code)
         \/ http[i] = RateLimited /\ FirstSend(i - 1)

\* a logout that the provider answered with a code raise_api_error does not
\* name: USGSError reached the caller
C13_Witness ==
  /\ EndedByResponseToGet
  /\ api_op = "logout"
  /\ LastHttp.code = Some("SERVER_ERROR")
  /\ api_exc = "USGSError"

\* the state of the catalog client
ClientState ==
  IF x_auth_token # NoToken THEN "Authenticated"
  ELSE IF logged_out THEN "LoggedOut" ELSE "Unauthenticated"

\* C14 as stated: LoggedOut is terminal: once a logout has returned, the
\* client is never again Authenticated, with a token on its session.
C14_LoggedOutIsTerminal == logged_out => ClientState # "Authenticated"

\* C14, amended: a logout that returns leaves the client LoggedOut, with a
\* fresh session that holds no token, and the token on the session changes
\* only there and when a login succeeds; LoggedOut is not terminal, a login
\* that succeeds on the same client makes it Authenticated again.
C14_LoggedOutUntilLogin ==
  [][ /\ api_op = "logout" /\ api_pc # "idle" /\ api_pc' = "idle"
         /\ api_exc' = NoExc =>
           ClientState' = "LoggedOut"
      /\ x_auth_token' # x_auth_token =>
           \/ /\ api_op = "logout"
              /\ api_pc' = "idle"
              /\ api_exc' = NoExc
              /\ ClientState' = "LoggedOut"
           \/ /\ api_op = "login"
              /\ api_pc = "login_post"
              /\ api_exc' = NoExc
              /\ x_auth_token' \in Tokens
              /\ ClientState' = "Authenticated"
    ]_<< vars, client >>

\* a client that logged out, logged in again, and holds a token
C14_Witness ==
  /\ logged_out
  /\ ApiFinished
  /\ api_op = "login"
  /\ ClientState = "Authenticated"

\* the call that ended is a logout called on a client that had logged out:
\* its request went out on the fresh session, without a token
SecondLogout ==
  /\ ApiFinished
  /\ api_op = "logout"
  /\ logged_out
  /\ http[1].token = NoToken

\* C15: a logout called on a client that has logged out raises no error and
\* leaves the client as the first logout left it: LoggedOut, no token.
C15_LogoutIdempotent ==
  SecondLogout => api_exc = NoExc /\ ClientState = "LoggedOut"

\* the call that ended is a login
LoginEnded == ApiFinished /\ api_op = "login"

\* C16: a login whose response carries an authentication error code raises
\* USGSAuthenticationError and leaves the X-Auth-Token header as it was when
\* the credentials were posted; a login that succeeds stores the token the
\* provider issued, and every request sent after it, up to the logout that
\* ends the session, carries the token of the session.
C16_LoginStoresTokenOnlyOnSuccess ==
  /\ LoginEnded /\ LastHttp.code \in ProviderAuthCodes =>
       /\ api_exc = "USGSAuthenticationError"
       /\ x_auth_token = http[1].token
  /\ LoginEnded /\ api_exc = NoExc =>
       /\ x_auth_token \in Tokens
       /\ x_auth_token \in server_tokens
  /\ \A i \in 1..Len(http) :
       http[i].kind = "GET" =>
         \/ http[i].token = x_auth_token
         \/ api_op = "logout" /\ ApiFinished /\ api_exc = NoExc

\* the call that ended is a get_entity_id
GetEntityIdEnded == ApiFinished /\ api_op = "get_entity_id"

\* C17: when get_entity_id has returned or raised, every scene list it
\* created at the provider has been removed.
C17_TemporaryListRemoved ==
  GetEntityIdEnded => \A l \in created : server_lists[l] = None

\* the place of an endpoint in the order add, get, remove
Rank(ep) ==
  CASE ep = "scene-list-add" -> 1
    [] ep = "scene-list-get" -> 2
    [] ep = "scene-list-remove" -> 3
    [] OTHER -> 0
\* the requests of the call went to scene-list-add, scene-list-get and
\* scene-list-remove, in that order, each with the list id drawn for the call
AddGetRemove ==
  /\ list_id \in ListIds
  /\ \A i \in 1..Len(Gets) :
       /\ Gets[i].list_id = list_id
       /\ Rank(Gets[i].endpoint) > 0
       /\ \A j \in i..Len(Gets) :
            Rank(Gets[i].endpoint) <= Rank(Gets[j].endpoint)
  /\ { Rank(Gets[i].endpoint) : i \in 1..Len(Gets) } = {1, 2, 3}

EELoginPosted ==
  /\ ee_pc = "idle"
  /\ ee_http # << >>
  /\ ee_http[Len(ee_http)].method = "POST"

\* C19: a login whose credential POST was answered has returned normally
\* only with the cookie EROS_SSO_production_secure in the jar, and has
\* raised EarthExplorerError when the cookie is absent; a step in which
\* logged_in() hands its caller a new value sends no request and leaves
\* the cookie jar and the rest of the session as they were, and the value
\* is made of the cookie in the jar alone.
C19_LoginNeedsCookie ==
  /\ [](EELoginPosted =>
          /\ ee_exc = NoExc => cookies # None
          /\ cookies = None => ee_exc = "EarthExplorerError")
  /\ [][ logged_in_value' # logged_in_value =>
           /\ UNCHANGED << cookies, ee_pc, credentials, csrf, ee_http, ee_exc >>
           /\ logged_in_value' = IF TruthyStr(cookies) THEN "True" ELSE "False"
       ]_<< vars, client >>

\* a login with the bad credentials of the tests: the POST was answered,
\* no cookie is in the jar, EarthExplorerError was raised and logged_in()
\* has answered False
C19_Witness ==
  /\ EELoginPosted
  /\ credentials = [username |-> "bad_username", password |-> "bad_password"]
  /\ cookies = None
  /\ ee_exc = "EarthExplorerError"
  /\ logged_in_value = "False"

(***************************************************************************)
(* Properties of search                                                    *)
(***************************************************************************)
\* a scene-search request of search is on its way
SearchSent ==
  /\ api_op = "search"
  /\ api_pc \in { "request1", "request2" }
  /\ http[Len(http)].endpoint = "scene-search"
\* the sceneFilter of the request
SentFilter == CHOOSE sf \in scene_filter : TRUE
\* the arguments of search from which a sub-filter is made were supplied
Supplied(k, a) ==
  CASE k = "acquisitionFilter" -> a.start_date # None /\ a.end_date # None
    [] k = "spatialFilter" ->
         \/ a.longitude # None /\ a.latitude # None
         \/ a.bbox # None
    [] k = "cloudCoverFilter" -> a.max_cloud_cover # None
    [] k = "seasonalFilter" -> a.months # None
    [] OTHER -> FALSE

\* C20: in the sceneFilter of every scene-search request, the keys are
\* sub-filter keys, a key is present only when the arguments of its
\* sub-filter were supplied, and the value under a key is never null.
C20_AbsentFiltersOmitted ==
  SearchSent =>
    /\ scene_filter # None
    /\ DOMAIN SentFilter \subseteq SceneFilterKeys
    /\ \A k \in DOMAIN SentFilter :
         /\ Supplied(k, search_args)
         /\ SentFilter[k] # None

\* a search with a bounding box and months, and no dates and no cloud
\* cover: the request carries the spatial and the seasonal filter only
C20_Witness ==
  /\ SearchSent
  /\ search_args.bbox # None
  /\ search_args.months = Some(<< 6, 7 >>)
  /\ search_args.start_date = None
  /\ search_args.max_cloud_cover = None
  /\ DOMAIN SentFilter = { "spatialFilter", "seasonalFilter" }

(***************************************************************************)
(* util.py: the functions called on an identifier                          *)
(***************************************************************************)
\* a Python bool as the caller sees it
Bool(b) == IF b THEN "True" ELSE "False"

\* what an earlier call returned still stands when the identifier is the same
Kept(id, ret, none) == IF id = id_arg THEN ret ELSE none

\* is_display_id(id), lines 22-23
IsDisplayId ==
  \E id \in UtilInputs :
    /\ id_arg' = id
    /\ ret_is_display_id' = Bool(is_display_id(id))
    /\ ret_is_entity_id' = Kept(id, ret_is_entity_id, "None")
    /\ ret_parse_product_id' = Kept(id, ret_parse_product_id, NotCalled)
    /\ ret_guess_dataset' = Kept(id, ret_guess_dataset, NotCalled)
    /\ UNCHANGED << vars, api, portal, normalizer, concurrent >>

\* is_entity_id(id), lines 26-27
IsEntityId ==
  \E id \in UtilInputs :
    /\ id_arg' = id
    /\ ret_is_entity_id' = Bool(is_entity_id(id))
    /\ ret_is_display_id' = Kept(id, ret_is_display_id, "None")
    /\ ret_parse_product_id' = Kept(id, ret_parse_product_id, NotCalled)
    /\ ret_guess_dataset' = Kept(id, ret_guess_dataset, NotCalled)
    /\ UNCHANGED << vars, api, portal, normalizer, concurrent >>

\* parse_product_id(product_id), lines 50-61
ParseProductId ==
  \E id \in UtilInputs :
    /\ id_arg' = id
    /\ ret_parse_product_id' = parse_product_id(id)
    /\ ret_is_display_id' = Kept(id, ret_is_display_id, "None")
    /\ ret_is_entity_id' = Kept(id, ret_is_entity_id, "None")
    /\ ret_guess_dataset' = Kept(id, ret_guess_dataset, NotCalled)
    /\ UNCHANGED << vars, api, portal, normalizer, concurrent >>

\* guess_dataset(identifier), lines 108-124
GuessDataset ==
  \E id \in UtilInputs :
    /\ id_arg' = id
    /\ ret_guess_dataset' = guess_dataset(id)
    /\ ret_is_display_id' = Kept(id, ret_is_display_id, "None")
    /\ ret_is_entity_id' = Kept(id, ret_is_entity_id, "None")
    /\ ret_parse_product_id' = Kept(id, ret_parse_product_id, NotCalled)
    /\ UNCHANGED << vars, api, portal, normalizer, concurrent >>

UtilNext ==
  \/ IsDisplayId
  \/ IsEntityId
  \/ ParseProductId
  \/ GuessDataset

UtilSpec == ClientInit /\ [][UtilNext]_<< vars, client >>

(***************************************************************************)
(* api.py: the metadata normalizer at work                                 *)
(***************************************************************************)
\* _parse_value(src_value), lines 338-348
ParseValue ==
  \E v \in RawValues :
    /\ value_arg' = v
    /\ ret_parse_value' = _parse_value(v)
    /\ UNCHANGED << md_pc, md_response, ret_parse_metadata >>
    /\ UNCHANGED << vars, api, portal, util, concurrent >>

ValueNext == ParseValue

ValueSpec == ClientInit /\ [][ValueNext]_<< vars, client >>

\* metadata, line 176 and search, line 265: the provider returns a scene record
Receive ==
  /\ md_pc = "idle"
  /\ \E r \in Responses : md_response' = r
  /\ md_pc' = "received"
  /\ ret_parse_metadata' = NotCalled
  /\ UNCHANGED << value_arg, ret_parse_value >>
  /\ UNCHANGED << vars, api, portal, util, concurrent >>

\* metadata, line 185 and search, line 274: _parse_metadata(response)
ParseMetadata ==
  /\ md_pc = "received"
  /\ ret_parse_metadata' = _parse_metadata(md_response)
  /\ md_pc' = "idle"
  /\ UNCHANGED << value_arg, ret_parse_value, md_response >>
  /\ UNCHANGED << vars, api, portal, util, concurrent >>

MetadataNext ==
  \/ Receive
  \/ ParseMetadata

MetadataSpec == ClientInit /\ [][MetadataNext]_<< vars, client >>

(***************************************************************************)
(* earthexplorer.py: two _download calls for the same file, overwrite      *)
(* false, skip false. Each step is one system call or request of a call.   *)
(***************************************************************************)
\* the local file before the calls: absent, a part of the scene's file,
\* the whole file, or the file with MaxExtra bytes too many
LocalFiles(size) ==
  { None } \cup { Some(FileBytes(1, n)) : n \in 0..size }
    \cup { Some(FileBytes(1, size) \o ErrorBytes(n)) : n \in 1..MaxExtra }

\* the scene's file is published and the local file is what earlier calls left
Publish ==
  /\ c_filesize = 0
  /\ \A c \in Calls : c_pc[c] = "idle"
  /\ c_filesize' \in 1..MaxSize
  /\ c_file' \in LocalFiles(c_filesize')
  /\ UNCHANGED << c_pc, c_file_exists, c_downloaded_bytes, c_headers,
                  c_file_mode, c_body, c_offset, c_overlap >>
  /\ UNCHANGED << vars, api, portal, util, normalizer >>

Running(c) == c_pc[c] \notin { "idle", "returned" }

\* lines 90-99: _get_fileinfo returned the file name and the size
GetFileinfoOf(c) ==
  /\ c_filesize > 0
  /\ c_pc[c] = "idle"
  /\ c_pc' = [c_pc EXCEPT ![c] = "exists"]
  /\ c_overlap' = (c_overlap \/ \E d \in Calls \ { c } : Running(d))
  /\ UNCHANGED << c_filesize, c_file, c_file_exists, c_downloaded_bytes,
                  c_headers, c_file_mode, c_body, c_offset >>
  /\ UNCHANGED << vars, api, portal, util, normalizer >>

\* line 100: file_exists = os.path.exists(local_filename)
Exists(c) ==
  /\ c_pc[c] = "exists"
  /\ c_file_exists' = [c_file_exists EXCEPT ![c] = (c_file # None)]
  /\ c_pc' = [c_pc EXCEPT ![c] = "getsize"]
  /\ UNCHANGED << c_filesize, c_file, c_downloaded_bytes, c_headers,
                  c_file_mode, c_body, c_offset, c_overlap >>
  /\ UNCHANGED << vars, api, portal, util, normalizer >>

\* the size os.path.getsize reports
Size(file) == Len(CHOOSE bytes \in file : TRUE)

\* lines 102-108 (overwrite false): the size on disk is where to resume;
\* the call returns when the file is complete
GetSize(c) ==
  /\ c_pc[c] = "getsize"
  /\ IF c_file_exists[c]
     THEN /\ c_downloaded_bytes' = [c_downloaded_bytes EXCEPT ![c] = Size(c_file)]
          /\ c_headers' = [c_headers EXCEPT ![c] = Size(c_file)]
          /\ c_file_mode' = [c_file_mode EXCEPT ![c] = "ab"]
          /\ c_pc' = [c_pc EXCEPT ![c] = IF Size(c_file) = c_filesize
                                         THEN "returned" ELSE "request"]
     ELSE /\ c_pc' = [c_pc EXCEPT ![c] = "request"]
          /\ UNCHANGED << c_downloaded_bytes, c_headers, c_file_mode >>
  /\ UNCHANGED << c_filesize, c_file, c_file_exists, c_body, c_offset,
                  c_overlap >>
  /\ UNCHANGED << vars, api, portal, util, normalizer >>

\* lines 110-116: the body request; the server honours Range, and answers
\* a range at or past the end of the file with an error body
BodyRequestOf(c) ==
  /\ c_pc[c] = "request"
  /\ \E body \in IF c_headers[c] = NoRange THEN { FileBytes(1, c_filesize) }
                  ELSE IF c_headers[c] < c_filesize
                       THEN { FileBytes(c_headers[c] + 1, c_filesize) }
                       ELSE { ErrorBytes(n) : n \in 0..MaxErrBody } :
       c_body' = [c_body EXCEPT ![c] = body]
  /\ c_pc' = [c_pc EXCEPT ![c] = "open"]
  /\ UNCHANGED << c_filesize, c_file, c_file_exists, c_downloaded_bytes,
                  c_headers, c_file_mode, c_offset, c_overlap >>
  /\ UNCHANGED << vars, api, portal, util, normalizer >>

\* line 124: open(local_filename, file_mode); "wb" truncates or creates
OpenFileOf(c) ==
  /\ c_pc[c] = "open"
  /\ c_file' = IF c_file_mode[c] = "wb" THEN Some(<< >>) ELSE c_file
  /\ c_offset' = [c_offset EXCEPT ![c] = 0]
  /\ c_pc' = [c_pc EXCEPT ![c] = "write"]
  /\ UNCHANGED << c_filesize, c_file_exists, c_downloaded_bytes, c_headers,
                  c_file_mode, c_body, c_overlap >>
  /\ UNCHANGED << vars, api, portal, util, normalizer >>

\* a write of chunk at position offset of a file: bytes past the end of
\* the file are added, a gap before offset reads as zeros
WriteAt(bytes, offset, chunk) ==
  [i \in 1..(IF Len(bytes) > offset + Len(chunk) THEN Len(bytes)
                                                 ELSE offset + Len(chunk)) |->
     IF i > offset /\ i <= offset + Len(chunk) THEN chunk[i - offset]
     ELSE IF i <= Len(bytes) THEN bytes[i] ELSE 0]

\* lines 125-127: the next chunk is read and written; a file opened "ab"
\* is written at its end, a file opened "wb" at the position of f
WriteChunkOf(c) ==
  /\ c_pc[c] = "write"
  /\ c_body[c] # << >>
  /\ LET chunk == SubSeq(c_body[c], 1, Min(ChunkSize, Len(c_body[c])))
         bytes == CHOOSE b \in c_file : TRUE
     IN  /\ c_file' = IF c_file_mode[c] = "ab" THEN Some(bytes \o chunk)
                      ELSE Some(WriteAt(bytes, c_offset[c], chunk))
         /\ c_offset' = [c_offset EXCEPT ![c] = @ + Len(chunk)]
         /\ c_body' = [c_body EXCEPT ![c] = SubSeq(@, Len(chunk) + 1, Len(@))]
  /\ UNCHANGED << c_filesize, c_pc, c_file_exists, c_downloaded_bytes,
                  c_headers, c_file_mode, c_overlap >>
  /\ UNCHANGED << vars, api, portal, util, normalizer >>

\* line 129: the body is read to its end, _download returns
ReturnOf(c) ==
  /\ c_pc[c] = "write"
  /\ c_body[c] = << >>
  /\ c_pc' = [c_pc EXCEPT ![c] = "returned"]
  /\ UNCHANGED << c_filesize, c_file, c_file_exists, c_downloaded_bytes,
                  c_headers, c_file_mode, c_body, c_offset, c_overlap >>
  /\ UNCHANGED << vars, api, portal, util, normalizer >>

ConcurrentNext ==
  \/ Publish
  \/ \E c \in Calls : GetFileinfoOf(c)
  \/ \E c \in Calls : Exists(c)
  \/ \E c \in Calls : GetSize(c)
  \/ \E c \in Calls : BodyRequestOf(c)
  \/ \E c \in Calls : OpenFileOf(c)
  \/ \E c \in Calls : WriteChunkOf(c)
  \/ \E c \in Calls : ReturnOf(c)

ConcurrentSpec == ClientInit /\ [][ConcurrentNext]_<< vars, client >>

(***************************************************************************)
(* Properties of search, continued                                         *)
(***************************************************************************)
\* the value a sub-filter key carries in the request
SentUnder(k) == CHOOSE f \in SentFilter[k] : TRUE

\* C21: a scene-search request of a search given start_date and no end_date
\* carries an acquisition filter whose start and end both equal start_date.
C21_EndDateDefaultsToStartDate ==
  (SearchSent /\ TruthyStr(search_args.start_date) /\ search_args.end_date = None)
    => /\ "acquisitionFilter" \in DOMAIN SentFilter
       /\ \A d \in search_args.start_date :
            SentFilter["acquisitionFilter"] = Some(AcquisitionFilter(d, d))

\* C30: a scene-search request of a search given a longitude and a
\* latitude, whatever their values, carries a spatialFilter of type mbr
\* whose lowerLeft and upperRight both equal (longitude, latitude); a
\* search given max_cloud_cover, whatever its value, carries a
\* cloudCoverFilter with that max.
C30_PointAndCloudCoverAnyValue ==
  SearchSent =>
    /\ (search_args.longitude # None /\ search_args.latitude # None) =>
         /\ "spatialFilter" \in DOMAIN SentFilter
         /\ \A x \in search_args.longitude : \A y \in search_args.latitude :
              SentFilter["spatialFilter"] = Some(SpatialFilterMbr(x, y, x, y))
    /\ search_args.max_cloud_cover # None =>
         /\ "cloudCoverFilter" \in DOMAIN SentFilter
         /\ \A m \in search_args.max_cloud_cover :
              SentUnder("cloudCoverFilter").max = m

(***************************************************************************)
(* Properties of the identifier functions                                  *)
(***************************************************************************)
\* the identifier starts with the provider's letter
Prefixed(id) == Len(id) >= 1 /\ id[1] = "L"

\* C25: is_display_id returns true for every string of 40 characters that
\* starts with the provider's letter, is_entity_id returns true for every
\* string of 21 characters that starts with it, and for no string do both
\* return true.
C25_ClassifierShapesDisjoint ==
  /\ (ret_is_display_id # "None" /\ Len(id_arg) = 40 /\ Prefixed(id_arg))
       => ret_is_display_id = "True"
  /\ (ret_is_entity_id # "None" /\ Len(id_arg) = 21 /\ Prefixed(id_arg))
       => ret_is_entity_id = "True"
  /\ ~(ret_is_display_id = "True" /\ ret_is_entity_id = "True")

\* both functions were called on a product id of 40 characters: it is a
\* display id and no entity id
C25_Witness ==
  /\ Len(id_arg) = 40 /\ Prefixed(id_arg)
  /\ ret_is_display_id = "True"
  /\ ret_is_entity_id = "False"

\* C26: parse_product_id called on the product id made of fields without
\* an underscore (one character of sensor, two of satellite) returns
\* exactly those fields.
C26_ParseInvertsConstruction ==
  \A f \in ProductFields :
    (ret_parse_product_id.exc # "NotCalled" /\ id_arg = ProductId(f))
      => /\ ret_parse_product_id.exc = NoExc
         /\ ret_parse_product_id.value = f

\* a product id with an empty processing level and collection 03 was
\* parsed back to its fields
C26_Witness ==
  /\ ret_parse_product_id.exc = NoExc
  /\ \E f \in ProductFields :
       /\ f.processing_level = << >>
       /\ f.collection_number = << "0", "3" >>
       /\ id_arg = ProductId(f)
       /\ ret_parse_product_id.value = f

\* C27: parse_product_id raises LandsatxploreError for every string that
\* has fewer or more than 7 underscore-separated segments.
C27_WrongSegmentCountRaisesDomainError ==
  (ret_parse_product_id.exc # "NotCalled" /\ Len(Split(id_arg, "_")) # 7)
    => ret_parse_product_id.exc = "LandsatxploreError"

\* C28: guess_dataset either returns the name of a dataset of DATASETS or
\* raises LandsatxploreError; it raises no other exception and returns no
\* other name.
C28_GuessReturnsKnownOrDomainError ==
  ret_guess_dataset.exc # "NotCalled" =>
    \/ ret_guess_dataset.exc = "LandsatxploreError"
    \/ /\ ret_guess_dataset.exc = NoExc
       /\ \E i \in DOMAIN DATASETS : DATASETS[i] = ret_guess_dataset.value

(***************************************************************************)
(* Properties of the metadata normalizer                                   *)
(***************************************************************************)
\* the string is a date to dateutil, or a timestamp YYYY:DDD:HH:MM:SS.ffffff
IsTimestamp(parts) ==
  /\ Len(parts) = 2
  /\ strptime(parts[1]) # None
  /\ IsDecimal(Slice(parts[2], 0, 6))
IsDate(s) == parser_parse(s) # None \/ IsTimestamp(Split(s, "."))

\* the value of the latest call of _parse_value, trimmed
Trimmed == Strip(value_arg.str)

\* C23: _parse_value returns a value that is no string unchanged; of a
\* string it returns the integer of the trimmed string when that is an
\* integer literal, else the float when it is a float literal, else the
\* date when it is a date or a timestamp YYYY:DDD:HH:MM:SS.ffffff, else the
\* trimmed string; what parsed as a number is never returned as a date.
C23_CoercionOrder ==
  ret_parse_value # Unset =>
    IF value_arg.type # "str" THEN ret_parse_value = value_arg
    ELSE /\ IsIntLiteral(Trimmed) =>
              /\ ret_parse_value.type = "int"
              /\ ret_parse_value.int = Sign(Trimmed) * IntOf(Unsigned(Trimmed))
         /\ (~IsIntLiteral(Trimmed) /\ IsFloatLiteral(Trimmed)) =>
              ret_parse_value.type = "float"
         /\ (~IsIntLiteral(Trimmed) /\ ~IsFloatLiteral(Trimmed) /\ IsDate(Trimmed)) =>
              ret_parse_value.type = "datetime"
         /\ (~IsIntLiteral(Trimmed) /\ ~IsFloatLiteral(Trimmed) /\ ~IsDate(Trimmed)) =>
              ret_parse_value = PyString(Trimmed)
         /\ ret_parse_value.type = "datetime" =>
              ~IsIntLiteral(Trimmed) /\ ~IsFloatLiteral(Trimmed)

\* a timestamp of the provider with whitespace around it was made a date
\* with its microseconds
C23_Witness ==
  /\ value_arg.type = "str"
  /\ Trimmed = << "2", "0", "1", "1", ":", "3", "0", "1", ":", "0", "8", ":", "2", "5", ":", "3", "3", ".", "1", "2", "3", "4", "5", "6", "0" >>
  /\ Trimmed # value_arg.str
  /\ ret_parse_value = Datetime(2011, 301, 8, 25, 33, 123456)

\* _parse_metadata has returned a mapping for md_response
Normalized == md_pc = "idle" /\ ret_parse_metadata.exc = NoExc
\* the keys of a response that are not stored as plain values
StructuredKeys ==
  { << "b", "r", "o", "w", "s", "e" >>, << "s", "p", "a", "t", "i", "a", "l", "C", "o", "v", "e", "r", "a", "g", "e" >>, << "s", "p", "a", "t", "i", "a", "l", "B", "o", "u", "n", "d", "s" >>, << "t", "e", "m", "p", "o", "r", "a", "l", "C", "o", "v", "e", "r", "a", "g", "e" >>,
    << "m", "e", "t", "a", "d", "a", "t", "a" >> }
\* the nested metadata list of the response
NestedFields ==
  LET lists == { i \in DOMAIN md_response : md_response[i].key = << "m", "e", "t", "a", "d", "a", "t", "a" >> }
  IN  IF lists = {} THEN << >> ELSE md_response[CHOOSE i \in lists : TRUE].value
\* the raw values of the response that are stored under a name
RawUnder(name) ==
  { md_response[i].value :
      i \in { j \in DOMAIN md_response :
                /\ md_response[j].key \notin StructuredKeys
                /\ _camel_to_snake(md_response[j].key) = name } }
    \cup { NestedFields[i].value :
             i \in { j \in DOMAIN NestedFields :
                       FieldName(NestedFields[j].fieldName) = name } }

\* C22: in the mapping _parse_metadata returns, every field whose name ends
\* in _id, top-level or of the nested metadata list and after all
\* renamings, is a string and equals the trimmed text of a raw value of
\* that field; it is no integer, float or date.
C22_IdFieldsKeptAsStrings ==
  Normalized =>
    \A name \in DOMAIN ret_parse_metadata.value :
      EndsWith(name, << "_", "i", "d" >>) =>
        /\ ret_parse_metadata.value[name].type = "str"
        /\ \E raw \in RawUnder(name) :
             ret_parse_metadata.value[name].str = Strip(StrOf(raw))

\* a record with the numeric-looking product identifier " 00123 " and a
\* sentinel "Entity ID" 00123 in its nested list: both stay the string 00123
C22_Witness ==
  /\ Normalized
  /\ << "l", "a", "n", "d", "s", "a", "t", "_", "p", "r", "o", "d", "u", "c", "t", "_", "i", "d" >> \in DOMAIN ret_parse_metadata.value
  /\ << "s", "e", "n", "t", "i", "n", "e", "l", "_", "e", "n", "t", "i", "t", "y", "_", "i", "d" >> \in DOMAIN ret_parse_metadata.value
  /\ ret_parse_metadata.value[<< "l", "a", "n", "d", "s", "a", "t", "_", "p", "r", "o", "d", "u", "c", "t", "_", "i", "d" >>] = PyString(<< "0", "0", "1", "2", "3" >>)
  /\ ret_parse_metadata.value[<< "s", "e", "n", "t", "i", "n", "e", "l", "_", "e", "n", "t", "i", "t", "y", "_", "i", "d" >>] = PyString(<< "0", "0", "1", "2", "3" >>)
  /\ PyString(<< " ", "0", "0", "1", "2", "3", " " >>) \in RawUnder(<< "l", "a", "n", "d", "s", "a", "t", "_", "p", "r", "o", "d", "u", "c", "t", "_", "i", "d" >>)

\* C24: _parse_metadata returns a mapping for every scene record, and the
\* mapping has the key acquisition_date.
C24_AcquisitionDateAlwaysExists ==
  (md_pc = "idle" /\ ret_parse_metadata.exc # "NotCalled") =>
    /\ ret_parse_metadata.exc = NoExc
    /\ << "a", "c", "q", "u", "i", "s", "i", "t", "i", "o", "n", "_", "d", "a", "t", "e" >> \in DOMAIN ret_parse_metadata.value

(***************************************************************************)
(* Properties of two download calls for the same file                      *)
(***************************************************************************)
\* both calls have returned
BothReturned == \A c \in Calls : c_pc[c] = "returned"
\* the local file is the scene's file
FileAsExpected == c_file = Some(FileBytes(1, c_filesize))

\* C29: when the two calls ran one after the other (overwrite false), the
\* local file has the expected size when both have returned. (That some
\* interleaving of two overlapping calls leaves a file of another size is
\* the reachability of C29_CorruptingInterleaving.)
C29_SequentialCallsEndWithExpectedFile ==
  (BothReturned /\ ~c_overlap) => Size(c_file) = c_filesize

\* two overlapping calls, started on a file that was absent or a part of
\* the scene's file, have both returned and the file is larger than expected
C29_CorruptingInterleaving ==
  /\ BothReturned
  /\ c_overlap
  /\ \A c \in Calls : c_headers[c] = NoRange \/ c_headers[c] < c_filesize
  /\ Size(c_file) > c_filesize

(***************************************************************************)
(* Properties of the portal login, continued                               *)
(***************************************************************************)
\* a login has ended at the login page: nothing but the request for the
\* page was sent, and no token was taken from it
EELoginEndedAtPage ==
  /\ ee_pc = "idle"
  /\ ee_http = << EERequest("GET", EE_LOGIN_URL, None, "None") >>
  /\ csrf = None

\* C31: a login whose page holds no csrf token ends with EarthExplorerError
\* and with no other exception, and no credential POST is sent.
C31_NoCsrfRaisesEarthExplorerError ==
  /\ EELoginEndedAtPage => ee_exc = "EarthExplorerError"
  /\ (ee_http # << >> /\ ee_http[Len(ee_http)].method = "POST") => csrf # None

(***************************************************************************)
(* Properties of download, continued                                       *)
(***************************************************************************)
\* C32: when a download call with skip false has returned, the local file
\* has the expected size, the Content-Length of the scene's file, whatever
\* the file was before the call (absent, shorter, complete, longer) and
\* whatever overwrite is.
C32_ReturnedFileHasExpectedSize ==
  (pc = "returned" /\ ~skip) => fs[Target] = content_length

(***************************************************************************)
(* Properties of the metadata normalizer, continued                        *)
(***************************************************************************)
\* the temporalCoverage items of the response
CoverageItems == { i \in DOMAIN md_response : md_response[i].key = << "t", "e", "m", "p", "o", "r", "a", "l", "C", "o", "v", "e", "r", "a", "g", "e" >> }
\* the value of the temporalCoverage item of the response
RawCoverage == md_response[CHOOSE i \in CoverageItems : TRUE].value

\* C33: for a record with a temporalCoverage, the temporal_coverage of the
\* mapping _parse_metadata returns is the pair of the parsed startDate and
\* the parsed endDate, in that order; when the record has no acquisition
\* date of its own, acquisition_date is the parsed startDate.
C33_TemporalCoverageStartThenEnd ==
  (Normalized /\ CoverageItems # {}) =>
    /\ ret_parse_metadata.value[<< "t", "e", "m", "p", "o", "r", "a", "l", "_", "c", "o", "v", "e", "r", "a", "g", "e" >>] =
         List(<< _to_date(RawCoverage.startDate), _to_date(RawCoverage.endDate) >>)
    /\ RawUnder(<< "a", "c", "q", "u", "i", "s", "i", "t", "i", "o", "n", "_", "d", "a", "t", "e" >>) = {} =>
         ret_parse_metadata.value[<< "a", "c", "q", "u", "i", "s", "i", "t", "i", "o", "n", "_", "d", "a", "t", "e" >>] = _to_date(RawCoverage.startDate)

(***************************************************************************)
(* Properties of the progress counter of _download                         *)
(***************************************************************************)
\* a transfer is under way: the body request was answered
Transferring == pc \in { "open", "write" }

\* C34: during a transfer the progress counter starts at the number of
\* bytes already on disk, advances with every chunk by the number of bytes
\* written, never exceeds the expected total, and equals the size of the
\* local file when the body is exhausted.
C34_ProgressCountsBytesWritten ==
  /\ [](pc = "open" => pbar = downloaded_bytes)
  /\ [](Transferring => pbar <= filesize)
  /\ []((pc = "write" /\ remaining = 0) => pbar = fs[local_filename])
  /\ [][ (pc = "write" /\ pc' = "write") =>
           pbar' - pbar = fs'[local_filename] - fs[local_filename]
       ]_<< vars, client >>

====
